---- MODULE Spec2Model ----
(***************************************************************************)
(* A state-machine model of letsearch's indexing-and-search core:          *)
(*   src/src/collection/collection_type.rs  (Collection)                   *)
(*   src/src/collection/vector_index.rs     (VectorIndex)                  *)
(*   src/src/model/model_manager.rs         (ModelManager)                 *)
(*                                                                         *)
(* One collection directory <home>/collections/<name>/ is modelled with    *)
(* its config.json, its DuckDB row store and its per-column index          *)
(* directories, together with the one Collection value the process holds   *)
(* and the ModelManager registry.                                          *)
(***************************************************************************)
EXTENDS Integers, Sequences, FiniteSets, TLC

(***************************************************************************)
(* Bounds of the model.                                                    *)
(***************************************************************************)
\* largest number of rows of a source file
MaxRows == 2
\* largest number of entries an index is grown to (re-embedding is cut there)
MaxEntries == 4
\* largest batch_size passed to embed_column
MaxBatch == 2
\* largest limit passed to search
MaxK == 2
\* largest number of models loaded into the ModelManager
MaxModels == 1
\* number of tasks that read the row store while an import runs
MaxReaders == 1
\* number of tasks that call load_model side by side
MaxLoaders == 2
\* largest number of models the tasks calling load_model side by side register
MaxLoads == 3
MaxSearchers == 1

\* SQL NULL (a text or a key that is absent in a row)
NULL == -1

\* the text columns of a source file
Columns == {"a", "b"}

\* the texts: row i of a generated source holds text i
Texts == 1 .. (MaxRows + 1)

VARIABLES
  fs_dir,      \* <home>/collections/<name> exists
  fs_config,   \* the contents of config.json
  fs_index,    \* per column: the state of <index_dir>/<column>/
  db_table,    \* the row store's table named <name> (committed state)
  db_seq,      \* the sequence keys_seq exists in the row store
  coll,        \* the Collection value held by the process
  models,      \* ModelManager.models
  next_id,     \* ModelManager.next_id
  ret,         \* the last call: operation, arguments, outcome
  conn_lock,   \* Collection.conn's RwLock: its writer and its readers
  tx,          \* the open transaction of the connection, with its uncommitted table
  import_pc,   \* where the task running an import is
  read_pc,     \* where each task reading the row store is
  seen,        \* what the last statement of each reading task saw of the table
  before,      \* the row store as the running import found it
  load_pc,     \* where each task running load_model is, with its model and its id
  next_id_lock,\* the tasks holding ModelManager.next_id's RwLock for writing
  models_lock, \* ModelManager.models' RwLock: its writers and its readers
  lookup_pc,   \* where the task looking a model up in the registry is
  returned,    \* the ids load_model has returned, in the order of the returns
  vi,          \* a VectorIndex value used through its own methods
  vi_dir,      \* the directory of that VectorIndex on disk
  vi_saved,    \* whether index.bin holds that VectorIndex as it is now
  embed_pc,    \* where the running embed_column is, with its arguments
  batch_log,   \* the batches the running embed_column has inserted
  saves,       \* how often the running embed_column has saved the index
  hf_meta,     \* metadata.json in the model cache directory of the repository
  hf_files,    \* the other files of the model cache directory
  worker_pc,   \* where each of the calls running side by side is
  locks,       \* every RwLock of the Collection and the ModelManager
  index_keys,  \* the keys in the index of the column those calls work on
  observed     \* what each search found in that index

vars ==
  <<fs_dir, fs_config, fs_index, db_table, db_seq, coll, models, next_id, ret,
    conn_lock, tx, import_pc, read_pc, seen, before,
    load_pc, next_id_lock, models_lock, lookup_pc, returned, vi, vi_dir, vi_saved,
    embed_pc, batch_log, saves, hf_meta, hf_files, worker_pc, locks, index_keys, observed>>

disk == <<fs_dir, fs_config, fs_index, db_table, db_seq>>

\* the state of the tasks that run load_model side by side
loaders == <<load_pc, next_id_lock, models_lock, lookup_pc, returned>>

\* the state of the tasks that run an import and read beside it
importers == <<conn_lock, tx, import_pc, read_pc, seen, before>>

\* a VectorIndex used on its own
detached == <<vi, vi_dir, vi_saved>>

\* an embed_column followed batch by batch
embedder == <<embed_pc, batch_log, saves>>

\* the model cache directory <home>/models/<user>/<repo>
hf_cache == <<hf_meta, hf_files>>

\* the calls that run side by side on one Collection and one ModelManager
workers == <<worker_pc, locks, index_keys, observed>>

\* all that a sequence of calls on one Collection and one ModelManager leaves alone
tasks == <<importers, loaders, detached, embedder, hf_cache, workers>>

(***************************************************************************)
(* Sequences helpers.                                                      *)
(***************************************************************************)
Min(a, b) == IF a <= b THEN a ELSE b

Range(s) == {s[i] : i \in DOMAIN s}

\* s[from + 1 .. from + n], cut at the end of s (SQL's LIMIT n OFFSET from)
LimitOffset(s, n, from) ==
  IF from >= Len(s) THEN <<>> ELSE SubSeq(s, from + 1, Min(Len(s), from + n))

RECURSIVE SelectSeqBy(_, _, _)
\* the elements r of s with r[field] \in set, in the order of s
SelectSeqBy(s, field, set) ==
  IF s = <<>> THEN <<>>
  ELSE LET rest == SelectSeqBy(Tail(s), field, set)
       IN  IF Head(s)[field] \in set THEN <<Head(s)>> \o rest ELSE rest

(***************************************************************************)
(* CollectionConfig and config.json.                                       *)
(***************************************************************************)
ConfigFields == {"name", "db_path", "index_dir", "index_columns", "model_name", "model_variant"}

IndexColumnLists == {<<>>, <<"a">>, <<"a", "b">>}

Configs ==
  [name : {"c"}, db_path : {"data.db"}, index_dir : {"index"},
   index_columns : IndexColumnLists, model_name : {"m"}, model_variant : {"f32"}]

NoFile == [st |-> "absent"]

\* a file that File::create truncated and to_writer never completed
GarbageFile == [st |-> "garbage"]

\* serde_json::to_writer(config_file, &config): one JSON member per field
ConfigToJson(config) ==
  [st |-> "json", obj |-> [f \in ConfigFields |-> config[f]]]

\* a from_reader that falls back on a default config when it cannot parse
ConfigFromJsonOrDefault(file) ==
  IF file.st = "json" /\ DOMAIN file.obj = ConfigFields
    THEN [ok |-> TRUE,
          config |-> [f \in ConfigFields |-> file.obj[f]]]
    ELSE [ok |-> TRUE,
          config |-> [name |-> "c", db_path |-> "data.db", index_dir |-> "index",
                      index_columns |-> <<>>, model_name |-> "m", model_variant |-> "f32"]]

\* serde_json::from_reader(config_file): every field must be there
ConfigFromJson(file) ==
  IF file.st = "json" /\ DOMAIN file.obj = ConfigFields
    THEN [ok |-> TRUE,
          config |-> [name |-> file.obj["name"], db_path |-> file.obj["db_path"],
                      index_dir |-> file.obj["index_dir"],
                      index_columns |-> file.obj["index_columns"],
                      model_name |-> file.obj["model_name"],
                      model_variant |-> file.obj["model_variant"]]]
    ELSE [ok |-> FALSE]

(***************************************************************************)
(* The row store.                                                          *)
(***************************************************************************)
NoTable == [st |-> "none"]

\* the rows of the source read by read_json_auto / read_parquet
PlainRows(n) == [i \in 1 .. n |-> [text |-> [c \in Columns |-> i], key |-> NULL]]

NullTextRows(n, p, c) ==
  [i \in 1 .. n |->
     [text |-> [d \in Columns |-> IF i = p /\ d = c THEN NULL ELSE i], key |-> NULL]]

KeyedRows(n, ks) == [i \in 1 .. n |-> [text |-> [c \in Columns |-> i], key |-> ks[i]]]

\* the values a source's own _key column holds
SourceKeys == {NULL, 1}

Unreadable == [readable |-> FALSE, rows |-> <<>>, hasKey |-> FALSE, keyType |-> "UBIGINT"]

\* the source files an import is given: one that cannot be read; plain ones of
\* every length; full-length ones with one NULL text; full-length ones that bring
\* a _key column of their own
SourceFiles ==
  {Unreadable}
  \cup {[readable |-> TRUE, rows |-> PlainRows(n), hasKey |-> FALSE, keyType |-> "UBIGINT"] :
          n \in 0 .. MaxRows}
  \cup {[readable |-> TRUE, rows |-> NullTextRows(MaxRows, p, c), hasKey |-> FALSE,
         keyType |-> "UBIGINT"] : p \in 1 .. MaxRows, c \in Columns}
  \cup {[readable |-> TRUE, rows |-> KeyedRows(MaxRows, ks), hasKey |-> TRUE,
         keyType |-> "UBIGINT"] : ks \in [1 .. MaxRows -> SourceKeys]}
  \cup {[readable |-> TRUE, rows |-> KeyedRows(MaxRows, [i \in 1 .. MaxRows |-> i]),
         hasKey |-> TRUE, keyType |-> "BIGINT"]}

\* the first value NEXTVAL('keys_seq') returns
SeqStart == 1

\* ALTER TABLE .. ADD COLUMN _key UBIGINT DEFAULT NEXTVAL('keys_seq')
AddKeyColumn(rows) ==
  [i \in 1 .. Len(rows) |-> [rows[i] EXCEPT !.key = SeqStart + (i - 1)]]

\* CREATE OR REPLACE TABLE: an existing table is replaced
CreateOrReplaceTable(table, src) ==
  IF ~src.readable
    THEN [ok |-> FALSE, err |-> "duckdb: read source", table |-> table]
    ELSE [ok |-> TRUE, err |-> "",
          table |-> [st |-> "table", rows |-> src.rows, hasKey |-> src.hasKey,
                     keyType |-> src.keyType]]

\* CREATE TABLE <name> AS SELECT * FROM read_json_auto / read_parquet: the
\* source is read when the statement is bound, the table made when it runs
CreateTable(table, src) ==
  IF ~src.readable
    THEN [ok |-> FALSE, err |-> "duckdb: read source", table |-> table]
  ELSE IF table.st # "none"
    THEN [ok |-> FALSE, err |-> "duckdb: table exists", table |-> table]
  ELSE [ok |-> TRUE, err |-> "",
        table |-> [st |-> "table", rows |-> src.rows, hasKey |-> src.hasKey,
                   keyType |-> src.keyType]]

\* Collection::add_keys_to_db within the transaction
AddKeysToDb(table, seq) ==
  IF table.hasKey
    THEN [ok |-> TRUE, table |-> table, seq |-> seq]
  ELSE IF seq
    THEN [ok |-> FALSE, table |-> table, seq |-> seq]
  ELSE [ok |-> TRUE,
        table |-> [table EXCEPT !.rows = AddKeyColumn(table.rows), !.hasKey = TRUE,
                                !.keyType = "UBIGINT"],
        seq |-> TRUE]

(***************************************************************************)
(* The outcome of a call.                                                  *)
(***************************************************************************)
\* Ok(..): the call returned
Returned(op, args) ==
  [op |-> op, args |-> args, st |-> "ok", err |-> "", n |-> 1 - ret.n]

\* Err(..): the call returned an error value
Failed(op, args, err) ==
  [op |-> op, args |-> args, st |-> "err", err |-> err, n |-> 1 - ret.n]

\* unwrap / expect / assert! / unimplemented!: the call aborted
Panicked(op, args, err) ==
  [op |-> op, args |-> args, st |-> "panic", err |-> err, n |-> 1 - ret.n]

\* the outcome keeps create's overwrite and whether the source of an import
\* could be read; of the other calls it keeps no argument
NoArgs == [none |-> TRUE]

\* the error kinds of the design, by the place the error value comes from
ErrorKind(err) ==
  CASE err = "Collection {name} does not exist" -> "NotFound"
    [] err = "config file does not exist" -> "NotFound"
    [] err = "Model not loaded" -> "NotFound"
    [] err = "Model not found" -> "NotFound"
    [] err = "Index not found" -> "NotFound"
    [] err = "serde_json" -> "CorruptState"
    [] err = "usearch load" -> "CorruptState"
    [] err = "duckdb: table exists" -> "InvalidOperation"
    [] err = "duckdb: read source" -> "IOError"
    [] err = "duckdb: sequence exists" -> "Internal"
    [] err = "duckdb: commit" -> "IOError"
    [] err = "duckdb" -> "IOError"
    [] err = "io" -> "IOError"
    [] err = "Failed to download file" -> "IOError"
    [] err = "This is probably not a letsearch-compatible model" -> "IncompatibleModel"
    [] err = "Variant not found in config" -> "IncompatibleModel"
    [] OTHER -> "Internal"

(***************************************************************************)
(* Collection::new and Collection::from.                                   *)
(***************************************************************************)
NoCollection == [st |-> "none"]

NoIndex == [st |-> "absent"]

NoDir == [st |-> "nodir"]

\* the directory exists and holds no index.bin
EmptyIndexDir == [st |-> "dir"]

\* the failures of the environment Collection::new meets
CreateFaults == {"none", "create_dir_all", "Connection::open", "to_writer"}

\* Collection::new(config, overwrite)
Create(config, overwrite, fault) ==
  LET args == [overwrite |-> overwrite]
      removed == overwrite /\ fs_dir
      index0 == IF removed THEN [c \in Columns |-> NoDir] ELSE fs_index
      table0 == IF removed THEN NoTable ELSE db_table
      seq0 == IF removed THEN FALSE ELSE db_seq
      config0 == IF removed THEN NoFile ELSE fs_config
  IN  /\ fs_index' = index0
      /\ db_table' = table0
      /\ db_seq' = seq0
      /\ UNCHANGED <<models, next_id, tasks>>
      /\ CASE fault = "create_dir_all" ->
                /\ fs_dir' = (fs_dir /\ ~removed)
                /\ fs_config' = config0
                /\ coll' = NoCollection
                /\ ret' = Failed("create", args, "io")
           [] fault = "Connection::open" ->
                /\ fs_dir' = TRUE
                /\ fs_config' = config0
                /\ coll' = NoCollection
                /\ ret' = Panicked("create", args, "error while trying to open connection to db")
           [] fault = "to_writer" ->
                /\ fs_dir' = TRUE
                /\ fs_config' = GarbageFile
                /\ coll' = NoCollection
                /\ ret' = Panicked("create", args, "serde_json")
           [] OTHER ->
                /\ fs_dir' = TRUE
                /\ fs_config' = ConfigToJson(config)
                /\ coll' = [st |-> "open", config |-> config,
                            vector_index |-> [c \in Columns |-> NoIndex]]
                /\ ret' = Returned("create", args)

\* VectorIndex::from(path): Index::new, then index.load(<path>/index.bin)
VectorIndexFrom(dir) ==
  IF dir.st = "saved"
    THEN [ok |-> TRUE, index |-> [st |-> "some", dim |-> dir.dim, entries |-> dir.entries]]
    ELSE [ok |-> FALSE]

\* the loop of Collection::from over config.index_columns
LoadIndexes(index_columns) ==
  IF \E i \in DOMAIN index_columns : ~VectorIndexFrom(fs_index[index_columns[i]]).ok
    THEN [ok |-> FALSE]
    ELSE [ok |-> TRUE,
          map |-> [c \in Columns |->
                     IF c \in Range(index_columns)
                       THEN VectorIndexFrom(fs_index[c]).index ELSE NoIndex]]

IndexDirExists == \E c \in Columns : fs_index[c].st # "nodir"

\* Collection::from(name)
Open ==
  LET args == NoArgs
      parsed == ConfigFromJson(fs_config)
      loaded == IF IndexDirExists /\ parsed.config.index_columns # <<>>
                  THEN LoadIndexes(parsed.config.index_columns)
                  ELSE [ok |-> TRUE, map |-> [c \in Columns |-> NoIndex]]
  IN  /\ UNCHANGED <<disk, models, next_id, tasks>>
      /\ IF ~fs_dir
           THEN /\ coll' = NoCollection
                /\ ret' = Failed("open", args, "Collection {name} does not exist")
         ELSE IF fs_config.st = "absent"
           THEN /\ coll' = NoCollection
                /\ ret' = Failed("open", args, "config file does not exist")
         ELSE IF ~parsed.ok
           THEN /\ coll' = NoCollection
                /\ ret' = Failed("open", args, "serde_json")
         ELSE IF ~loaded.ok
           THEN /\ coll' = NoCollection
                /\ ret' = Failed("open", args, "usearch load")
         ELSE /\ coll' = [st |-> "open", config |-> parsed.config, vector_index |-> loaded.map]
              /\ ret' = Returned("open", args)

\* the process lets go of its Collection value
Drop ==
  /\ coll.st = "open"
  /\ coll' = NoCollection
  /\ ret' = Returned("drop", NoArgs)
  /\ UNCHANGED <<disk, models, next_id, tasks>>

(***************************************************************************)
(* Collection::import_jsonl and Collection::import_parquet.                *)
(***************************************************************************)
\* the transaction of an import: CREATE TABLE, add_keys_to_db, commit
ImportTx(op, src, commitFails) ==
  LET args == [readable |-> src.readable]
      created == CreateTable(db_table, src)
      keyed == AddKeysToDb(created.table, db_seq)
  IN  /\ coll.st = "open"
      /\ UNCHANGED <<fs_dir, fs_config, fs_index, coll, models, next_id, tasks>>
      /\ IF ~created.ok
           THEN /\ UNCHANGED <<db_table, db_seq>>
                /\ ret' = Failed(op, args, created.err)
         ELSE IF ~keyed.ok
           THEN /\ UNCHANGED <<db_table, db_seq>>
                /\ ret' = Failed(op, args, "duckdb: sequence exists")
         ELSE IF commitFails
           THEN /\ UNCHANGED <<db_table, db_seq>>
                /\ ret' = Failed(op, args, "duckdb: commit")
         ELSE /\ db_table' = keyed.table
              /\ db_seq' = keyed.seq
              /\ ret' = Returned(op, args)

ImportJsonl(src, commitFails) == ImportTx("import_jsonl", src, commitFails)

ImportParquet(src, commitFails) == ImportTx("import_parquet", src, commitFails)

(***************************************************************************)
(* ModelManager.                                                           *)
(***************************************************************************)
\* the models a backend can be: its output_dim and its output_dtype
ModelKinds ==
  {[dim |-> 2, dtype |-> "F32"], [dim |-> 3, dtype |-> "F16"], [dim |-> 2, dtype |-> "Int8"]}

\* the model ids a caller passes: registered ones and one that is not
ModelIds == 1 .. (MaxModels + 1)

\* the failures of the environment load_model meets
LoadFaults == {"none", "download_model", "BertONNX::new"}

\* ModelManager::load_model
LoadModel(kind, fault) ==
  LET args == NoArgs
      model_id == next_id
  IN  /\ next_id <= MaxModels
      /\ UNCHANGED <<disk, coll, tasks>>
      /\ CASE fault = "download_model" ->
                /\ UNCHANGED <<models, next_id>>
                /\ ret' = Failed("load_model", args, "io")
           [] fault = "BertONNX::new" ->
                /\ UNCHANGED <<models, next_id>>
                /\ ret' = Panicked("load_model", args, "BertONNX::new")
           [] OTHER ->
                /\ next_id' = next_id + 1
                /\ models' = [i \in DOMAIN models \cup {model_id} |->
                                IF i = model_id THEN kind ELSE models[i]]
                /\ ret' = Returned("load_model", args)

\* ModelManager::output_dtype
OutputDtype(model_id) ==
  IF model_id \in DOMAIN models
    THEN [st |-> "ok", err |-> "", val |-> models[model_id].dtype]
    ELSE [st |-> "err", err |-> "Model not loaded", val |-> ""]

\* ModelManager::output_dim
OutputDim(model_id) ==
  IF model_id \in DOMAIN models
    THEN [st |-> "ok", err |-> "", val |-> models[model_id].dim]
    ELSE [st |-> "err", err |-> "Model not loaded", val |-> 0]

\* the backend's embedding of one text: a vector of the model's output_dim
Embedding(model_id, text) == [dim |-> models[model_id].dim, of |-> text]

\* ModelManager::predict
Predict(model_id, texts) ==
  LET output_dtype == OutputDtype(model_id)
  IN  IF output_dtype.st # "ok"
        THEN [st |-> "err", err |-> output_dtype.err, dtype |-> "", emb |-> <<>>]
      ELSE IF output_dtype.val = "Int8"
        THEN [st |-> "panic", err |-> "int8 dynamic quantization not yet implemented",
              dtype |-> "", emb |-> <<>>]
      ELSE [st |-> "ok", err |-> "", dtype |-> output_dtype.val,
            emb |-> [i \in DOMAIN texts |-> Embedding(model_id, texts[i])]]

(***************************************************************************)
(* VectorIndex.                                                            *)
(***************************************************************************)
\* VectorIndex::new(index_dir, true) then with_options(options, 20000)
NewIndex(dim, dtype) == [st |-> "some", dim |-> dim, entries |-> <<>>]

\* an add that stops after its first key
VectorIndexAddFirst(index, keys, emb) ==
  [index EXCEPT !.entries = @ \o [i \in {j \in DOMAIN keys : j = 1} |->
                                     [key |-> keys[i], vec |-> emb[i]]]]

\* VectorIndex::add: one index.add(keys[i], vector_i) per key, in order
VectorIndexAdd(index, keys, emb) ==
  [index EXCEPT !.entries = @ \o [i \in DOMAIN keys |-> [key |-> keys[i], vec |-> emb[i]]]]

\* VectorIndex::save: index.save(<path>/index.bin)
VectorIndexSave(index) == [st |-> "saved", dim |-> index.dim, entries |-> index.entries]

\* the cosine distance of the index, in steps of the model's resolution
Distance(q, v) ==
  LET d == IF q.of >= v.of THEN q.of - v.of ELSE v.of - q.of
  IN  Min(d, 2)

RECURSIVE InsertByDistance(_, _)
\* m put into the ascending sequence s, after the matches that are as near
InsertByDistance(s, m) ==
  IF s = <<>> THEN <<m>>
  ELSE IF Head(s).distance <= m.distance
    THEN <<Head(s)>> \o InsertByDistance(Tail(s), m)
  ELSE <<m>> \o s

RECURSIVE SortByDistance(_)
SortByDistance(s) ==
  IF s = <<>> THEN <<>>
  ELSE InsertByDistance(SortByDistance(SubSeq(s, 1, Len(s) - 1)), s[Len(s)])

\* usearch's index.search(query_vector, count): the count nearest entries,
\* nearest first
IndexSearch(index, q, count) ==
  LET all == [i \in DOMAIN index.entries |->
                [key |-> index.entries[i].key, distance |-> Distance(q, index.entries[i].vec)]]
  IN  LimitOffset(SortByDistance(all), count, 0)

\* a score that grows with the distance
ScoreOfDistance(distance) == distance - 1

\* the score of a match
Score(distance) == 1 - distance

\* VectorIndex::search
VectorIndexSearch(index, q, count) ==
  LET matches == IndexSearch(index, q, count)
  IN  [i \in DOMAIN matches |-> [key |-> matches[i].key, score |-> Score(matches[i].distance)]]

(***************************************************************************)
(* Collection: reading the row store.                                      *)
(***************************************************************************)
\* key.unwrap_or(0) of get_column_and_keys
KeyOrZero(key) == IF key = NULL THEN 0 ELSE key

\* Collection::get_column_and_keys(column_name, limit, offset)
GetColumnAndKeys(column_name, limit, offset) ==
  LET rows == LimitOffset(db_table.rows, limit, offset)
  IN  IF limit < 1
        THEN [st |-> "panic", err |-> "assert!(limit >= 1)", texts |-> <<>>, keys |-> <<>>]
      ELSE IF db_table.st = "none"
        THEN [st |-> "err", err |-> "duckdb", texts |-> <<>>, keys |-> <<>>]
      ELSE IF rows = <<>>
        THEN [st |-> "panic", err |-> "assert_eq!(result.len(), 1)", texts |-> <<>>,
              keys |-> <<>>]
      ELSE IF \E i \in DOMAIN rows : rows[i].text[column_name] = NULL
        THEN [st |-> "panic", err |-> "s.unwrap()", texts |-> <<>>, keys |-> <<>>]
      ELSE IF db_table.keyType # "UBIGINT"
        THEN [st |-> "panic", err |-> "downcast_ref::<PrimitiveArray<UInt64Type>>",
              texts |-> <<>>, keys |-> <<>>]
      ELSE [st |-> "ok", err |-> "",
            texts |-> [i \in DOMAIN rows |-> rows[i].text[column_name]],
            keys |-> [i \in DOMAIN rows |-> KeyOrZero(rows[i].key)]]

\* Collection::get_single_column(column_name, limit, offset, keys)
GetSingleColumn(column_name, limit, offset, keys) ==
  LET matching == IF keys = <<>> THEN db_table.rows
                  ELSE SelectSeqBy(db_table.rows, "key", Range(keys))
      rows == LimitOffset(matching, limit, offset)
  IN  IF limit < 1
        THEN [st |-> "panic", err |-> "assert!(limit >= 1)", val |-> <<>>]
      ELSE IF db_table.st = "none"
        THEN [st |-> "err", err |-> "duckdb", val |-> <<>>]
      ELSE IF rows = <<>>
        THEN [st |-> "panic", err |-> "assert_eq!(result.len(), 1)", val |-> <<>>]
      ELSE IF \E i \in DOMAIN rows : rows[i].text[column_name] = NULL
        THEN [st |-> "panic", err |-> "s.unwrap()", val |-> <<>>]
      ELSE [st |-> "ok", err |-> "", val |-> [i \in DOMAIN rows |-> rows[i].text[column_name]]]

(***************************************************************************)
(* Collection::embed_column.                                               *)
(***************************************************************************)
\* Collection::embed_column_with_offset: one batch into the column's index
EmbedColumnWithOffset(index, column_name, batch_size, offset, model_id) ==
  LET got == GetColumnAndKeys(column_name, batch_size, offset)
      embeddings == Predict(model_id, got.texts)
  IN  IF got.st = "err"
        THEN [st |-> "err", err |-> got.err, index |-> index]
      ELSE IF got.st = "panic"
        THEN [st |-> "panic", err |-> got.err, index |-> index]
      ELSE IF embeddings.st # "ok"
        THEN [st |-> "panic", err |-> embeddings.err, index |-> index]
      ELSE [st |-> "ok", err |-> "", index |-> VectorIndexAdd(index, got.keys, embeddings.emb)]

RECURSIVE EmbedBatches(_, _, _, _, _, _)
\* for batch in 0..num_batches { embed_column_with_offset(..).unwrap() }
EmbedBatches(index, column_name, batch_size, model_id, batch, num_batches) ==
  IF batch >= num_batches
    THEN [st |-> "ok", err |-> "", index |-> index]
    ELSE LET r == EmbedColumnWithOffset(index, column_name, batch_size, batch * batch_size,
                                        model_id)
         IN  IF r.st # "ok"
               THEN [st |-> "panic", err |-> r.err, index |-> r.index]
               ELSE EmbedBatches(r.index, column_name, batch_size, model_id, batch + 1,
                                 num_batches)

\* num_batches of embed_column
NumBatches(count, batch_size) == (count + batch_size - 1) \div batch_size

\* Collection::embed_column(column_name, batch_size, model_manager, model_id)
EmbedColumn(column_name, batch_size, model_id) ==
  LET args == NoArgs
      count == Len(db_table.rows)
      had == coll.vector_index[column_name].st # "absent"
      index0 == IF had THEN coll.vector_index[column_name]
                ELSE NewIndex(OutputDim(model_id).val, OutputDtype(model_id).val)
      ran == EmbedBatches(index0, column_name, batch_size, model_id, 0,
                          NumBatches(count, batch_size))
  IN  /\ coll.st = "open"
      /\ UNCHANGED <<fs_dir, fs_config, db_table, db_seq, models, next_id, tasks>>
      /\ IF db_table.st = "none"
           THEN /\ UNCHANGED <<fs_index, coll>>
                /\ ret' = Failed("embed_column", args, "duckdb")
         ELSE IF batch_size = 0
           THEN /\ UNCHANGED <<fs_index, coll>>
                /\ ret' = Panicked("embed_column", args, "attempt to divide by zero")
         ELSE IF ~had /\ OutputDim(model_id).st # "ok"
           THEN /\ UNCHANGED <<fs_index, coll>>
                /\ ret' = Panicked("embed_column", args, OutputDim(model_id).err)
         ELSE /\ Len(index0.entries) + count <= MaxEntries
              /\ coll' = [coll EXCEPT !.vector_index[column_name] = ran.index]
              /\ IF ran.st = "ok"
                   THEN /\ fs_index' = [fs_index EXCEPT ![column_name] = VectorIndexSave(ran.index)]
                        /\ ret' = Returned("embed_column", args)
                   ELSE /\ fs_index' = IF had THEN fs_index
                                       ELSE [fs_index EXCEPT ![column_name] = EmptyIndexDir]
                        /\ ret' = Panicked("embed_column", args, ran.err)

(***************************************************************************)
(* Collection::search.                                                     *)
(***************************************************************************)
\* similarity_results.iter().zip(contents.iter())
ZipResults(similarity_results, contents) ==
  [i \in 1 .. Min(Len(similarity_results), Len(contents)) |->
     [content |-> contents[i], key |-> similarity_results[i].key,
      score |-> similarity_results[i].score]]

\* Collection::search(column_name, query, limit, model_manager, model_id):
\* what the call returns in the current state
SearchOutcome(column_name, query, limit, model_id) ==
  LET embeddings == Predict(model_id, <<query>>)
      index == coll.vector_index[column_name]
      similarity_results == VectorIndexSearch(index, embeddings.emb[1], limit)
      similar_keys == [i \in DOMAIN similarity_results |-> similarity_results[i].key]
      contents == GetSingleColumn(column_name, Len(similar_keys), 0, similar_keys)
  IN  IF embeddings.st = "err"
        THEN [st |-> "err", err |-> embeddings.err, val |-> <<>>]
      ELSE IF embeddings.st = "panic"
        THEN [st |-> "panic", err |-> embeddings.err, val |-> <<>>]
      ELSE IF index.st = "absent"
        THEN [st |-> "err", err |-> "Index not found", val |-> <<>>]
      ELSE IF contents.st = "err"
        THEN [st |-> "err", err |-> contents.err, val |-> <<>>]
      ELSE IF contents.st = "panic"
        THEN [st |-> "panic", err |-> contents.err, val |-> <<>>]
      ELSE [st |-> "ok", err |-> "", val |-> ZipResults(similarity_results, contents.val)]

\* a call of Collection::search: it reads, and changes nothing
Search(column_name, query, limit, model_id) ==
  LET out == SearchOutcome(column_name, query, limit, model_id)
  IN  /\ coll.st = "open"
      /\ UNCHANGED <<disk, coll, models, next_id, tasks>>
      /\ ret' = [op |-> "search", args |-> NoArgs, st |-> out.st, err |-> out.err,
                 n |-> 1 - ret.n]

(***************************************************************************)
(* hf_ops: download_file and download_model.                               *)
(***************************************************************************)
\* the variants a caller asks for
Variants == {"f32", "f16"}

\* the "path" a metadata.json gives for a variant
VariantPath(variant) == IF variant = "f32" THEN "model-f32.onnx" ELSE "model-f16.onnx"

\* the files of a repository besides metadata.json
FileNames == {"model-f32.onnx", "model-f16.onnx", "tokenizer.json"}

\* what a metadata.json can say: letsearch_version (NULL when it is no
\* integer), the variants it lists and its required_files
Metadatas ==
  [st : {"json"}, version : {NULL, 1, 2}, variants : SUBSET Variants,
   required_files : {<<>>, <<"tokenizer.json">>}]

\* a repository: its metadata.json (absent, not JSON, or a manifest) and the
\* files it serves
Repos == [meta : {NoFile, GarbageFile} \cup Metadatas, files : SUBSET FileNames]

\* the network during a call: fine, failing at send(), or a stream that ends
\* before the body is complete
Networks == {"ok", "send fails", "stream cut"}

InitCache ==
  /\ hf_meta = NoFile
  /\ hf_files = [f \in FileNames |-> "absent"]

\* download_file(repo_id, "metadata.json", destination_dir, token)
DownloadMetadata(meta, repo, net) ==
  IF meta.st # "absent" THEN [ok |-> TRUE, err |-> "", meta |-> meta]
  ELSE IF net = "send fails" THEN [ok |-> FALSE, err |-> "io", meta |-> meta]
  ELSE IF repo.meta.st = "absent"
    THEN [ok |-> FALSE, err |-> "Failed to download file", meta |-> meta]
  ELSE IF net = "stream cut" THEN [ok |-> TRUE, err |-> "", meta |-> GarbageFile]
  ELSE [ok |-> TRUE, err |-> "", meta |-> repo.meta]

\* download_file(repo_id, file_name, destination_dir, token)
DownloadFile(files, repo, file_name, net) ==
  IF files[file_name] # "absent" THEN [ok |-> TRUE, err |-> "", files |-> files]
  ELSE IF net = "send fails" THEN [ok |-> FALSE, err |-> "io", files |-> files]
  ELSE IF file_name \notin repo.files
    THEN [ok |-> FALSE, err |-> "Failed to download file", files |-> files]
  ELSE IF net = "stream cut"
    THEN [ok |-> TRUE, err |-> "", files |-> [files EXCEPT ![file_name] = "partial"]]
  ELSE [ok |-> TRUE, err |-> "", files |-> [files EXCEPT ![file_name] = "whole"]]

RECURSIVE DownloadRequired(_, _, _, _)
\* for file_name in required_files { download_file(..).await? }
DownloadRequired(files, repo, required_files, net) ==
  IF required_files = <<>> THEN [ok |-> TRUE, err |-> "", files |-> files]
  ELSE LET r == DownloadFile(files, repo, Head(required_files), net)
       IN  IF ~r.ok THEN r
           ELSE DownloadRequired(r.files, repo, Tail(required_files), net)

\* download_model(model_path, variant, token)
DownloadModel(repo, variant, net) ==
  LET args == [variant |-> variant]
      config == DownloadMetadata(hf_meta, repo, net)
      model_file == DownloadFile(hf_files, repo, VariantPath(variant), net)
      required == DownloadRequired(model_file.files, repo, config.meta.required_files, net)
  IN  /\ UNCHANGED <<disk, coll, models, next_id, importers, loaders, detached, embedder, workers>>
      /\ hf_meta' = config.meta
      /\ IF ~config.ok
           THEN /\ UNCHANGED hf_files
                /\ ret' = Failed("download_model", args, config.err)
         ELSE IF config.meta.st = "garbage"
           THEN /\ UNCHANGED hf_files
                /\ ret' = Failed("download_model", args, "serde_json")
         ELSE IF config.meta.version = NULL
           THEN /\ UNCHANGED hf_files
                /\ ret' = Failed("download_model", args,
                                 "This is probably not a letsearch-compatible model")
         ELSE IF config.meta.version # 1
           THEN /\ UNCHANGED hf_files
                /\ ret' = Panicked("download_model", args, "assert_eq!(version, 1)")
         ELSE IF variant \notin config.meta.variants
           THEN /\ UNCHANGED hf_files
                /\ ret' = Failed("download_model", args, "Variant not found in config")
         ELSE IF ~model_file.ok
           THEN /\ UNCHANGED hf_files
                /\ ret' = Failed("download_model", args, model_file.err)
         ELSE /\ hf_files' = required.files
              /\ IF required.ok
                   THEN ret' = Returned("download_model", args)
                   ELSE ret' = Failed("download_model", args, required.err)

NextDownload ==
  \E repo \in Repos, variant \in Variants, net \in Networks :
    DownloadModel(repo, variant, net)

(***************************************************************************)
(* Collection::embed_column, batch by batch.                               *)
(***************************************************************************)
IdleEmbedder ==
  [at |-> "idle", column_name |-> "", batch_size |-> 0, model_id |-> 0, batch |-> 0,
   num_batches |-> 0, had |-> FALSE]

InitEmbedder ==
  /\ embed_pc = IdleEmbedder
  /\ batch_log = <<>>
  /\ saves = 0

\* the loop leaves after its first batch
LoopDoneEarly(batch, num_batches) == batch >= 1

\* for batch in 0..num_batches: whether the loop is over
LoopDone(batch, num_batches) == batch >= num_batches

\* embed_column is called, with &mut self and so beside no other call on the
\* Collection: the count, num_batches, and the index of the column made when
\* the map has none
EmbedCall(column_name, batch_size, model_id) ==
  LET args == NoArgs
      count == Len(db_table.rows)
      had == coll.vector_index[column_name].st # "absent"
      index0 == IF had THEN coll.vector_index[column_name]
                ELSE NewIndex(OutputDim(model_id).val, OutputDtype(model_id).val)
  IN  /\ coll.st = "open"
      /\ embed_pc.at = "idle"
      /\ import_pc.at = "idle"
      /\ UNCHANGED <<fs_dir, fs_config, db_table, db_seq, models, next_id, importers, loaders, detached, hf_cache, workers>>
      /\ batch_log' = <<>>
      /\ saves' = 0
      /\ IF db_table.st = "none"
           THEN /\ UNCHANGED <<fs_index, coll, embed_pc>>
                /\ ret' = Failed("embed_column", args, "duckdb")
         ELSE IF batch_size = 0
           THEN /\ UNCHANGED <<fs_index, coll, embed_pc>>
                /\ ret' = Panicked("embed_column", args, "attempt to divide by zero")
         ELSE IF ~had /\ OutputDim(model_id).st # "ok"
           THEN /\ UNCHANGED <<fs_index, coll, embed_pc>>
                /\ ret' = Panicked("embed_column", args, OutputDim(model_id).err)
         ELSE /\ Len(index0.entries) + count <= MaxEntries
              /\ coll' = [coll EXCEPT !.vector_index[column_name] = index0]
              /\ fs_index' = IF had THEN fs_index
                             ELSE [fs_index EXCEPT ![column_name] = EmptyIndexDir]
              /\ embed_pc' = [at |-> "batches", column_name |-> column_name,
                              batch_size |-> batch_size, model_id |-> model_id, batch |-> 0,
                              num_batches |-> NumBatches(count, batch_size), had |-> had]
              /\ UNCHANGED ret

\* one turn of the loop: embed_column_with_offset(..).unwrap()
EmbedBatch ==
  LET c == embed_pc.column_name
      offset == embed_pc.batch * embed_pc.batch_size
      got == GetColumnAndKeys(c, embed_pc.batch_size, offset)
      r == EmbedColumnWithOffset(coll.vector_index[c], c, embed_pc.batch_size, offset,
                                 embed_pc.model_id)
  IN  /\ embed_pc.at = "batches"
      /\ ~LoopDone(embed_pc.batch, embed_pc.num_batches)
      /\ UNCHANGED <<disk, models, next_id, importers, loaders, detached, hf_cache, workers, saves>>
      /\ IF r.st = "ok"
           THEN /\ coll' = [coll EXCEPT !.vector_index[c] = r.index]
                /\ batch_log' = Append(batch_log, [offset |-> offset, n |-> Len(got.texts),
                                                   keys |-> got.keys])
                /\ embed_pc' = [embed_pc EXCEPT !.batch = @ + 1]
                /\ UNCHANGED ret
           ELSE /\ UNCHANGED <<coll, batch_log>>
                /\ embed_pc' = IdleEmbedder
                /\ ret' = Panicked("embed_column", NoArgs, r.err)

\* after the loop: the index of the column is saved
EmbedSave ==
  LET c == embed_pc.column_name
  IN  /\ embed_pc.at = "batches"
      /\ LoopDone(embed_pc.batch, embed_pc.num_batches)
      /\ fs_index' = [fs_index EXCEPT ![c] = VectorIndexSave(coll.vector_index[c])]
      /\ saves' = saves + 1
      /\ embed_pc' = [embed_pc EXCEPT !.at = "saved"]
      /\ UNCHANGED <<fs_dir, fs_config, db_table, db_seq, coll, models, next_id, ret, importers,
                     loaders, detached, hf_cache, workers, batch_log>>

\* Ok(())
EmbedReturn ==
  /\ embed_pc.at = "saved"
  /\ embed_pc' = [embed_pc EXCEPT !.at = "idle"]
  /\ ret' = Returned("embed_column", NoArgs)
  /\ UNCHANGED <<disk, coll, models, next_id, importers, loaders, detached, hf_cache, workers, batch_log, saves>>

\* the tables an import leaves
ImportedTables ==
  {AddKeysToDb(CreateTable(NoTable, src).table, FALSE) : src \in {f \in SourceFiles : f.readable}}

(***************************************************************************)
(* A VectorIndex used through its own methods.                             *)
(***************************************************************************)
\* no VectorIndex value has been made yet
NoVectorIndex == [st |-> "none"]

\* VectorIndex { index: None, path }: what VectorIndex::new returns
EmptyVectorIndex == [st |-> "empty"]

InitDetached ==
  /\ vi = NoVectorIndex
  /\ vi_dir = NoDir
  /\ vi_saved = FALSE

\* the keys a caller hands to add: n keys the index does not hold yet
AddKeys(index, n) == [i \in 1 .. n |-> Len(index.entries) + i]

VectorDims == {k.dim : k \in ModelKinds}

\* the state of the index in the life cycle of the design
IndexState(index, saved) ==
  IF index.st = "none" THEN "None"
  ELSE IF index.st = "empty" THEN "Empty"
  ELSE IF saved THEN "Persisted"
  ELSE IF index.entries # <<>> THEN "Populated"
  ELSE "Configured"

\* VectorIndex::new(index_dir, overwrite)
ViNew(overwrite, fault) ==
  /\ UNCHANGED <<disk, coll, models, next_id, importers, loaders, embedder, hf_cache, workers>>
  /\ IF fault
       THEN /\ UNCHANGED <<vi, vi_dir, vi_saved>>
            /\ ret' = Failed("VectorIndex::new", [overwrite |-> overwrite], "io")
       ELSE /\ vi_saved' = FALSE
            /\ vi_dir' = IF overwrite \/ vi_dir.st = "nodir" THEN EmptyIndexDir ELSE vi_dir
            /\ vi' = EmptyVectorIndex
            /\ ret' = Returned("VectorIndex::new", [overwrite |-> overwrite])

\* VectorIndex::with_options(options, capacity)
ViWithOptions(dim, dtype) ==
  /\ vi.st # "none"
  /\ vi' = NewIndex(dim, dtype)
  /\ vi_saved' = FALSE
  /\ ret' = Returned("with_options", NoArgs)
  /\ UNCHANGED <<disk, coll, models, next_id, importers, loaders, embedder, hf_cache, workers, vi_dir>>

\* VectorIndex::from(path)
ViFrom ==
  LET loaded == VectorIndexFrom(vi_dir)
  IN  /\ UNCHANGED <<disk, coll, models, next_id, importers, loaders, embedder, hf_cache, workers, vi_dir>>
      /\ IF loaded.ok
           THEN /\ vi' = loaded.index
                /\ vi_saved' = TRUE
                /\ ret' = Returned("VectorIndex::from", NoArgs)
           ELSE /\ UNCHANGED <<vi, vi_saved>>
                /\ ret' = Failed("VectorIndex::from", NoArgs, "usearch load")

\* VectorIndex::add(keys, vectors, vector_dim): one vector of vector_dim
\* scalars for each of the n keys
ViAdd(n, vector_dim) ==
  /\ vi.st # "none"
  /\ UNCHANGED <<disk, coll, models, next_id, importers, loaders, embedder, hf_cache, workers, vi_dir>>
  /\ IF vi.st = "empty"
       THEN /\ UNCHANGED <<vi, vi_saved>>
            /\ ret' = Panicked("add", NoArgs, "self.index.as_ref().unwrap()")
       ELSE LET keys == AddKeys(vi, n)
                vectors == [i \in DOMAIN keys |-> [dim |-> vector_dim, of |-> keys[i]]]
            IN  /\ Len(vi.entries) + n <= MaxEntries
                /\ vi' = VectorIndexAdd(vi, keys, vectors)
                /\ vi_saved' = FALSE
                /\ ret' = Returned("add", NoArgs)

\* VectorIndex::save()
ViSave ==
  /\ vi.st # "none"
  /\ UNCHANGED <<disk, coll, models, next_id, importers, loaders, embedder, hf_cache, workers, vi>>
  /\ IF vi.st = "empty"
       THEN /\ UNCHANGED <<vi_dir, vi_saved>>
            /\ ret' = Panicked("save", NoArgs, "self.index.as_ref().unwrap()")
       ELSE /\ vi_dir' = VectorIndexSave(vi)
            /\ vi_saved' = TRUE
            /\ ret' = Returned("save", NoArgs)

\* VectorIndex::search(vector, vector_dim, count)
ViSearch ==
  /\ vi.st # "none"
  /\ UNCHANGED <<disk, coll, models, next_id, importers, loaders, embedder, hf_cache, workers, vi, vi_dir, vi_saved>>
  /\ IF vi.st = "empty"
       THEN ret' = Panicked("VectorIndex::search", NoArgs, "self.index.as_ref().unwrap()")
       ELSE ret' = Returned("VectorIndex::search", NoArgs)

NextIndex ==
  \/ \E overwrite \in BOOLEAN, fault \in BOOLEAN : ViNew(overwrite, fault)
  \/ \E k \in ModelKinds : ViWithOptions(k.dim, k.dtype)
  \/ ViFrom
  \/ \E n \in 1 .. MaxBatch, vector_dim \in VectorDims : ViAdd(n, vector_dim)
  \/ ViSave
  \/ ViSearch

(***************************************************************************)
(* ModelManager::load_model, statement by statement, in tasks side by side. *)
(***************************************************************************)
Loaders == 1 .. MaxLoaders

IdleLoader == [at |-> "idle", kind |-> [dim |-> 0, dtype |-> ""], id |-> 0]

InitLoaders ==
  /\ load_pc = [t \in Loaders |-> IdleLoader]
  /\ next_id_lock = {}
  /\ models_lock = [writers |-> {}, readers |-> {}]
  /\ lookup_pc = "idle"
  /\ returned = <<>>

\* a lock that never makes a task wait
NeverBlocked(lock) == TRUE

\* self.next_id.write().await is granted when no task holds the lock
CanWriteNextId(lock) == lock = {}

\* self.models.write().await is granted when no task holds the lock
CanWriteModels(lock) == lock.writers = {} /\ lock.readers = {}

\* self.models.read().await is granted when no writer holds the lock
CanReadModels(lock) == lock.writers = {}

\* the loads that have not yet taken their id
LoadsBeforeId == {t \in Loaders : load_pc[t].at \in {"built", "locked"}}

\* load_model is called: download_model(..)? and BertONNX::new(..).unwrap()
LoadCall(t, kind, fault) ==
  /\ load_pc[t].at = "idle"
  /\ next_id + Cardinality(LoadsBeforeId) <= MaxLoads
  /\ UNCHANGED <<disk, coll, models, next_id, importers, detached, embedder, hf_cache, workers,
                 next_id_lock, models_lock, lookup_pc, returned>>
  /\ CASE fault = "download_model" ->
            /\ UNCHANGED load_pc
            /\ ret' = Failed("load_model", NoArgs, "io")
       [] fault = "BertONNX::new" ->
            /\ UNCHANGED load_pc
            /\ ret' = Panicked("load_model", NoArgs, "BertONNX::new")
       [] OTHER ->
            /\ load_pc' = [load_pc EXCEPT ![t] = [at |-> "built", kind |-> kind, id |-> 0]]
            /\ UNCHANGED ret

\* let mut next_id = self.next_id.write().await
LoadLockNextId(t) ==
  /\ load_pc[t].at = "built"
  /\ CanWriteNextId(next_id_lock)
  /\ next_id_lock' = next_id_lock \cup {t}
  /\ load_pc' = [load_pc EXCEPT ![t].at = "locked"]
  /\ UNCHANGED <<disk, coll, models, next_id, ret, importers, detached, embedder, hf_cache, workers, models_lock, lookup_pc, returned>>

\* let model_id = *next_id
LoadTakeId(t) ==
  /\ load_pc[t].at = "locked"
  /\ load_pc' = [load_pc EXCEPT ![t].at = "taken", ![t].id = next_id]
  /\ UNCHANGED <<disk, coll, models, next_id, ret, importers, detached, embedder, hf_cache, workers, next_id_lock, models_lock, lookup_pc, returned>>

\* *next_id += 1
LoadBumpNextId(t) ==
  /\ load_pc[t].at = "taken"
  /\ next_id' = next_id + 1
  /\ load_pc' = [load_pc EXCEPT ![t].at = "bumped"]
  /\ UNCHANGED <<disk, coll, models, ret, importers, detached, embedder, hf_cache, workers,
                 next_id_lock, models_lock, lookup_pc, returned>>

\* let mut models = self.models.write().await
LoadLockModels(t) ==
  /\ load_pc[t].at = "bumped"
  /\ CanWriteModels(models_lock)
  /\ models_lock' = [models_lock EXCEPT !.writers = @ \cup {t}]
  /\ load_pc' = [load_pc EXCEPT ![t].at = "inserting"]
  /\ UNCHANGED <<disk, coll, models, next_id, ret, importers, detached, embedder, hf_cache, workers, next_id_lock, lookup_pc, returned>>

\* models.insert(model_id, model); Ok(model_id): both guards are dropped
LoadInsert(t) ==
  LET model_id == load_pc[t].id
  IN  /\ load_pc[t].at = "inserting"
      /\ models' = [i \in DOMAIN models \cup {model_id} |->
                      IF i = model_id THEN load_pc[t].kind ELSE models[i]]
      /\ models_lock' = [models_lock EXCEPT !.writers = @ \ {t}]
      /\ next_id_lock' = next_id_lock \ {t}
      /\ returned' = Append(returned, [id |-> model_id, kind |-> load_pc[t].kind])
      /\ load_pc' = [load_pc EXCEPT ![t] = IdleLoader]
      /\ ret' = Returned("load_model", NoArgs)
      /\ UNCHANGED <<disk, coll, next_id, importers, detached, embedder, hf_cache, workers,
                     lookup_pc>>

\* output_dtype / output_dim / predict_*: let models = self.models.read().await
LookupBegin ==
  /\ lookup_pc = "idle"
  /\ CanReadModels(models_lock)
  /\ models_lock' = [models_lock EXCEPT !.readers = @ \cup {0}]
  /\ lookup_pc' = "reading"
  /\ UNCHANGED <<disk, coll, models, next_id, ret, importers, detached, embedder, hf_cache, workers, load_pc, next_id_lock, returned>>

\* models.get(&model_id), then the guard is dropped
LookupEnd ==
  /\ lookup_pc = "reading"
  /\ models_lock' = [models_lock EXCEPT !.readers = @ \ {0}]
  /\ lookup_pc' = "idle"
  /\ UNCHANGED <<disk, coll, models, next_id, ret, importers, detached, embedder, hf_cache, workers, load_pc, next_id_lock, returned>>

NextLoad ==
  \/ \E t \in Loaders, kind \in ModelKinds, fault \in LoadFaults : LoadCall(t, kind, fault)
  \/ \E t \in Loaders : LoadLockNextId(t)
  \/ \E t \in Loaders : LoadTakeId(t)
  \/ \E t \in Loaders : LoadBumpNextId(t)
  \/ \E t \in Loaders : LoadLockModels(t)
  \/ \E t \in Loaders : LoadInsert(t)
  \/ LookupBegin
  \/ LookupEnd

(***************************************************************************)
(* load_model, an import, embed_column and searches side by side, lock by  *)
(* lock.                                                                   *)
(***************************************************************************)
Loader == 1
Importer == 2
Embedder == 3
Searchers == 4 .. (3 + MaxSearchers)
Workers == {Loader, Importer, Embedder} \cup Searchers

\* the keys of one batch of the embed_column, and its batches
KeysPerBatch == MaxBatch
WorkerBatches == NumBatches(2 * MaxBatch, MaxBatch)

\* the RwLocks: Collection.conn, Collection.vector_index, the VectorIndex of the
\* column, the ModelManager handle, ModelManager.next_id, ModelManager.models
\* and the model of each id
ModelLock(model_id) == [name |-> "model", id |-> model_id]
Lock(name) == [name |-> name, id |-> 0]
WorkerModelIds == 1 .. 2
LockIds ==
  {Lock(n) : n \in {"conn", "vector_index", "index", "model_manager", "next_id", "models"}}
  \cup {ModelLock(id) : id \in WorkerModelIds}

\* a tokio RwLock: the task that holds it for writing, those that hold it for
\* reading, and those that wait for it to write
FreeLock == [writer |-> {}, readers |-> {}, queue |-> {}]

\* .read().await is granted when no task writes or waits to write
CanLockShared(lock) == lock.writer = {} /\ lock.queue = {}

\* .write().await is granted when no task holds the lock
CanLockExclusive(lock) == lock.writer = {} /\ lock.readers = {}

\* the locks a task holds
Held(t) == {l \in LockIds : t \in locks[l].writer \cup locks[l].readers}

\* the statements of a call, as a sequence
Read(lock) == <<[op |-> "read", lock |-> lock]>>
Write(lock) == <<[op |-> "write", lock |-> lock]>>
Release(lock) == <<[op |-> "release", lock |-> lock]>>
Statement(op) == <<[op |-> op, lock |-> Lock("")]>>

RECURSIVE Repeat(_, _)
Repeat(code, n) == IF n = 0 THEN <<>> ELSE code \o Repeat(code, n - 1)

\* output_dtype that keeps its guards when it returns
OutputDtypeKeepsGuards(model_id) ==
  Read(Lock("models")) \o Statement("models.get") \o Read(ModelLock(model_id))
    \o Statement("output_dtype")

\* ModelManager::output_dtype
OutputDtypeCode(model_id) ==
  Read(Lock("models")) \o Statement("models.get") \o Read(ModelLock(model_id))
    \o Statement("output_dtype")
    \o Release(ModelLock(model_id)) \o Release(Lock("models"))

\* ModelManager::output_dim
OutputDimCode(model_id) ==
  Read(Lock("models")) \o Statement("models.get") \o Read(ModelLock(model_id))
    \o Statement("output_dim")
    \o Release(ModelLock(model_id)) \o Release(Lock("models"))

\* ModelManager::predict_f32 / predict_f16
PredictF32Code(model_id) ==
  Read(Lock("models")) \o Statement("models.get") \o Read(ModelLock(model_id))
    \o Statement("inference")
    \o Release(ModelLock(model_id)) \o Release(Lock("models"))

\* model_manager.read().await.predict(model_id, texts).await
PredictCode(model_id) ==
  Read(Lock("model_manager")) \o OutputDtypeCode(model_id) \o PredictF32Code(model_id)
    \o Release(Lock("model_manager"))

\* get_column_and_keys that hands its conn guard to the caller
SelectKeepsConn(stmt) == Read(Lock("conn")) \o Statement(stmt)

\* get_column_and_keys / get_single_column / the COUNT of embed_column
SelectCode(stmt) == Read(Lock("conn")) \o Statement(stmt) \o Release(Lock("conn"))

\* embed_column: the block that makes the index of the column
CreateIndexCode(model_id) ==
  Write(Lock("vector_index")) \o Statement("contains_key")
    \o Read(Lock("model_manager")) \o OutputDimCode(model_id) \o Release(Lock("model_manager"))
    \o Read(Lock("model_manager")) \o OutputDtypeCode(model_id)
    \o Release(Lock("model_manager"))
    \o Statement("VectorIndex::new") \o Statement("indexes_guard.insert")
    \o Release(Lock("vector_index"))

\* embed_column_with_offset
BatchCode(model_id) ==
  SelectCode("select batch") \o PredictCode(model_id)
    \o Read(Lock("vector_index")) \o Write(Lock("index"))
    \o Repeat(Statement("index.add"), KeysPerBatch)
    \o Release(Lock("index")) \o Release(Lock("vector_index"))

\* embed_column: the index is saved
SaveCode ==
  Read(Lock("vector_index")) \o Read(Lock("index")) \o Statement("save")
    \o Release(Lock("index")) \o Release(Lock("vector_index"))

\* Collection::embed_column
EmbedColumnCode(model_id) ==
  SelectCode("count") \o CreateIndexCode(model_id)
    \o Repeat(BatchCode(model_id), WorkerBatches) \o SaveCode \o Statement("return")

\* Collection::search
SearchCode(model_id) ==
  PredictCode(model_id)
    \o Read(Lock("vector_index")) \o Statement("indexes.get") \o Read(Lock("index"))
    \o Statement("index.search")
    \o Release(Lock("index")) \o Release(Lock("vector_index"))
    \o SelectCode("select contents") \o Statement("return")

\* ModelManager::load_model
LoadModelCode ==
  Statement("BertONNX::new") \o Write(Lock("next_id")) \o Statement("take id")
    \o Statement("bump next_id") \o Write(Lock("models")) \o Statement("models.insert")
    \o Release(Lock("models")) \o Release(Lock("next_id")) \o Statement("return")

\* Collection::import_jsonl / import_parquet
ImportCode ==
  Write(Lock("conn")) \o Statement("transaction") \o Statement("create table")
    \o Statement("add keys") \o Statement("commit") \o Release(Lock("conn"))
    \o Statement("return")

\* the statements of the call each task runs, by the model_id it is given
Programs ==
  [t \in Workers, model_id \in WorkerModelIds |->
     IF t = Loader THEN LoadModelCode
     ELSE IF t = Importer THEN ImportCode
     ELSE IF t = Embedder THEN EmbedColumnCode(model_id)
     ELSE SearchCode(model_id)]

\* the statements that return Err or abort when the environment fails them
FallibleStatements ==
  {"BertONNX::new", "transaction", "create table", "add keys", "commit", "count",
   "select batch", "select contents", "VectorIndex::new", "save", "inference"}

\* the statements that abort the call (unwrap), the others return Err (?)
Unwrapped(t, op) ==
  \/ op \in {"BertONNX::new", "VectorIndex::new", "save", "inference"}
  \/ t = Embedder /\ op \in {"select batch", "models.get"}

IdleWorker == [at |-> 0, model_id |-> 0, code |-> 0, st |-> ""]

\* the position of a call that is over
Over == 0 - 1

InitWorkers ==
  /\ worker_pc = [t \in Workers |-> IdleWorker]
  /\ locks = [l \in LockIds |-> FreeLock]
  /\ index_keys = <<NULL>>
  /\ observed = [t \in Searchers |-> <<NULL>>]

\* the column has an index in the map
ColumnIndexed == index_keys # <<NULL>>

Running(t) == worker_pc[t].at >= 1

Current(t) == Programs[t, worker_pc[t].code][worker_pc[t].at]

\* the task is about to run the statement op
At(t, op) == Running(t) /\ Current(t).op = op

\* every guard of the task is dropped
DropGuards(t) ==
  [l \in LockIds |-> [writer |-> locks[l].writer \ {t}, readers |-> locks[l].readers \ {t},
                      queue |-> locks[l].queue \ {t}]]

\* the call is made
WorkerCall(t, model_id) ==
  /\ worker_pc[t].at = 0
  /\ t \in {Loader, Importer} => model_id = 1
  /\ worker_pc' = [worker_pc EXCEPT ![t] = [at |-> 1, model_id |-> model_id, code |-> model_id, st |-> ""]]
  /\ UNCHANGED <<disk, coll, models, next_id, ret, importers, loaders, detached, embedder,
                 hf_cache, locks, index_keys, observed>>

\* lock.read().await is granted
AcquireRead(t) ==
  /\ Running(t)
  /\ Current(t).op = "read"
  /\ CanLockShared(locks[Current(t).lock])
  /\ locks' = [locks EXCEPT ![Current(t).lock].readers = @ \cup {t}]
  /\ worker_pc' = [worker_pc EXCEPT ![t].at = @ + 1]
  /\ UNCHANGED <<disk, coll, models, next_id, ret, importers, loaders, detached, embedder,
                 hf_cache, index_keys, observed>>

\* lock.write().await is polled: the task waits in the queue of the lock
QueueWrite(t) ==
  /\ Running(t)
  /\ Current(t).op = "write"
  /\ t \notin locks[Current(t).lock].queue
  /\ locks' = [locks EXCEPT ![Current(t).lock].queue = @ \cup {t}]
  /\ UNCHANGED <<disk, coll, models, next_id, ret, importers, loaders, detached, embedder,
                 hf_cache, worker_pc, index_keys, observed>>

\* lock.write().await is granted
AcquireWrite(t) ==
  /\ Running(t)
  /\ Current(t).op = "write"
  /\ t \in locks[Current(t).lock].queue
  /\ CanLockExclusive(locks[Current(t).lock])
  /\ locks' = [locks EXCEPT ![Current(t).lock].queue = @ \ {t},
                            ![Current(t).lock].writer = {t}]
  /\ worker_pc' = [worker_pc EXCEPT ![t].at = @ + 1]
  /\ UNCHANGED <<disk, coll, models, next_id, ret, importers, loaders, detached, embedder,
                 hf_cache, index_keys, observed>>

\* a guard is dropped
ReleaseGuard(t) ==
  /\ Running(t)
  /\ Current(t).op = "release"
  /\ locks' = [locks EXCEPT ![Current(t).lock].readers = @ \ {t},
                            ![Current(t).lock].writer = @ \ {t}]
  /\ worker_pc' = [worker_pc EXCEPT ![t].at = @ + 1]
  /\ UNCHANGED <<disk, coll, models, next_id, ret, importers, loaders, detached, embedder,
                 hf_cache, index_keys, observed>>

\* the call ends with Err or by a panic: its guards are dropped
Bail(t, st) ==
  /\ worker_pc' = [worker_pc EXCEPT ![t].at = Over, ![t].st = st]
  /\ locks' = DropGuards(t)

\* a statement that takes no lock runs
RunStatement(t) ==
  LET op == Current(t).op
      model_id == worker_pc[t].model_id
  IN  /\ Running(t)
      /\ op \notin {"read", "write", "release", "return"}
      /\ UNCHANGED <<disk, coll, ret, importers, loaders, detached, embedder, hf_cache>>
      /\ CASE op = "models.get" /\ model_id \notin DOMAIN models ->
                /\ Bail(t, IF Unwrapped(t, op) THEN "panic" ELSE "err")
                /\ UNCHANGED <<models, next_id, index_keys, observed>>
           [] op = "indexes.get" /\ ~ColumnIndexed ->
                /\ Bail(t, "err")
                /\ UNCHANGED <<models, next_id, index_keys, observed>>
           [] op = "take id" ->
                /\ worker_pc' = [worker_pc EXCEPT ![t].at = @ + 1, ![t].model_id = next_id]
                /\ UNCHANGED <<models, next_id, locks, index_keys, observed>>
           [] op = "bump next_id" ->
                /\ next_id' = next_id + 1
                /\ worker_pc' = [worker_pc EXCEPT ![t].at = @ + 1]
                /\ UNCHANGED <<models, locks, index_keys, observed>>
           [] op = "models.insert" ->
                /\ models' = [i \in DOMAIN models \cup {model_id} |->
                                IF i = model_id THEN [dim |-> 2, dtype |-> "F32"]
                                ELSE models[i]]
                /\ worker_pc' = [worker_pc EXCEPT ![t].at = @ + 1]
                /\ UNCHANGED <<next_id, locks, index_keys, observed>>
           [] op = "indexes_guard.insert" ->
                /\ index_keys' = <<>>
                /\ worker_pc' = [worker_pc EXCEPT ![t].at = @ + 1]
                /\ UNCHANGED <<models, next_id, locks, observed>>
           [] op = "index.add" ->
                /\ index_keys' = Append(index_keys, Len(index_keys) + 1)
                /\ worker_pc' = [worker_pc EXCEPT ![t].at = @ + 1]
                /\ UNCHANGED <<models, next_id, locks, observed>>
           [] op = "index.search" ->
                /\ observed' = [observed EXCEPT ![t] = index_keys]
                /\ worker_pc' = [worker_pc EXCEPT ![t].at = @ + 1]
                /\ UNCHANGED <<models, next_id, locks, index_keys>>
           [] OTHER ->
                /\ worker_pc' = [worker_pc EXCEPT ![t].at = @ + 1]
                /\ UNCHANGED <<models, next_id, locks, index_keys, observed>>

\* the environment fails a statement: Err through ?, or a panic through unwrap
FailStatement(t) ==
  /\ Running(t)
  /\ Current(t).op \in FallibleStatements
  /\ Bail(t, IF Unwrapped(t, Current(t).op) THEN "panic" ELSE "err")
  /\ UNCHANGED <<disk, coll, models, next_id, ret, importers, loaders, detached, embedder,
                 hf_cache, index_keys, observed>>

\* Ok(..)
WorkerReturn(t) ==
  /\ Running(t)
  /\ Current(t).op = "return"
  /\ worker_pc' = [worker_pc EXCEPT ![t].at = Over, ![t].st = "ok"]
  /\ UNCHANGED <<disk, coll, models, next_id, ret, importers, loaders, detached, embedder,
                 hf_cache, locks, index_keys, observed>>

\* the steps of a call that has been made
WorkerStep(t) ==
  \/ AcquireRead(t)
  \/ QueueWrite(t)
  \/ AcquireWrite(t)
  \/ ReleaseGuard(t)
  \/ RunStatement(t)
  \/ FailStatement(t)
  \/ WorkerReturn(t)

NextWorkers ==
  \/ \E t \in Workers, model_id \in WorkerModelIds : WorkerCall(t, model_id)
  \/ \E t \in Workers : WorkerStep(t)

(***************************************************************************)
(* An import, statement by statement, beside tasks that read the row store. *)
(***************************************************************************)
Readers == 1 .. MaxReaders

\* the statements that read the row store under conn.read()
ReadStatements == {"get_column_and_keys", "get_single_column", "count"}

NoTx == [active |-> FALSE, table |-> NoTable, seq |-> FALSE]

Unread == [st |-> "unread"]

InitTasks ==
  /\ conn_lock = [writer |-> FALSE, readers |-> {}]
  /\ tx = NoTx
  /\ import_pc = [at |-> "idle", op |-> ""]
  /\ read_pc = [r \in Readers |-> [at |-> "idle", stmt |-> ""]]
  /\ seen = [r \in Readers |-> Unread]
  /\ before = [table |-> NoTable, seq |-> FALSE]
  /\ InitLoaders
  /\ InitDetached
  /\ InitEmbedder
  /\ InitCache
  /\ InitWorkers

\* conn.read().await taken in place of the writer lock
ConnReadInsteadOfWrite(lock) == [lock EXCEPT !.readers = @ \cup {0}]

\* conn.write().await, once granted
ConnWrite(lock) == [lock EXCEPT !.writer = TRUE]

\* conn.write().await is granted when nobody holds the lock
CanWrite(lock) == ~lock.writer /\ lock.readers = {}

\* conn.read().await is granted when no writer holds the lock
CanRead(lock) == ~lock.writer

\* conn_guard is dropped
ConnRelease(lock) == [lock EXCEPT !.writer = FALSE]

\* what a statement on the connection sees: the open transaction's table
ConnTable == IF tx.active THEN tx.table ELSE db_table

\* import_jsonl / import_parquet is called, with &self and so not while an
\* embed_column holds the Collection, and waits for conn.write()
ImportCall(op) ==
  /\ import_pc.at = "idle"
  /\ embed_pc.at = "idle"
  /\ import_pc' = [at |-> "waiting", op |-> op]
  /\ UNCHANGED <<disk, coll, models, next_id, loaders, detached, embedder, hf_cache, workers, ret, conn_lock, tx, read_pc, seen, before>>

\* conn.write().await returns; conn_guard.transaction() begins
ImportBegin ==
  /\ import_pc.at = "waiting"
  /\ CanWrite(conn_lock)
  /\ conn_lock' = ConnWrite(conn_lock)
  /\ tx' = [active |-> TRUE, table |-> db_table, seq |-> db_seq]
  /\ before' = [table |-> db_table, seq |-> db_seq]
  /\ import_pc' = [import_pc EXCEPT !.at = "tx"]
  /\ UNCHANGED <<disk, coll, models, next_id, loaders, detached, embedder, hf_cache, workers, ret, read_pc, seen>>

\* a statement failed: `?` returns, tx is dropped (rolled back), then conn_guard
ImportFail(args, err) ==
  /\ tx' = NoTx
  /\ conn_lock' = ConnRelease(conn_lock)
  /\ import_pc' = [at |-> "idle", op |-> ""]
  /\ ret' = Failed(import_pc.op, args, err)
  /\ UNCHANGED <<disk, coll, models, next_id, loaders, detached, embedder, hf_cache, workers, read_pc, seen, before>>

\* tx.execute_batch("CREATE TABLE .. AS SELECT * FROM ..")
ImportCreateTable(src) ==
  LET created == CreateTable(tx.table, src)
  IN  /\ import_pc.at = "tx"
      /\ IF created.ok
           THEN /\ tx' = [tx EXCEPT !.table = created.table]
                /\ import_pc' = [import_pc EXCEPT !.at = "created"]
                /\ UNCHANGED <<disk, coll, models, next_id, loaders, detached, embedder, hf_cache, workers, ret, conn_lock, read_pc, seen,
                               before>>
           ELSE ImportFail([readable |-> src.readable], created.err)

\* self.add_keys_to_db(&tx)
ImportAddKeys ==
  LET keyed == AddKeysToDb(tx.table, tx.seq)
  IN  /\ import_pc.at = "created"
      /\ IF keyed.ok
           THEN /\ tx' = [tx EXCEPT !.table = keyed.table, !.seq = keyed.seq]
                /\ import_pc' = [import_pc EXCEPT !.at = "keyed"]
                /\ UNCHANGED <<disk, coll, models, next_id, loaders, detached, embedder, hf_cache, workers, ret, conn_lock, read_pc, seen,
                               before>>
           ELSE ImportFail([readable |-> TRUE], "duckdb: sequence exists")

\* tx.commit()
ImportCommit(commitFails) ==
  /\ import_pc.at = "keyed"
  /\ IF commitFails
       THEN ImportFail([readable |-> TRUE], "duckdb: commit")
       ELSE /\ db_table' = tx.table
            /\ db_seq' = tx.seq
            /\ tx' = NoTx
            /\ import_pc' = [import_pc EXCEPT !.at = "committed"]
            /\ UNCHANGED <<fs_dir, fs_config, fs_index, coll, models, next_id, loaders, detached, embedder, hf_cache, workers, ret, conn_lock,
                           read_pc, seen, before>>

\* the block ends: conn_guard is dropped and the import returns Ok(())
ImportReturn ==
  /\ import_pc.at = "committed"
  /\ conn_lock' = ConnRelease(conn_lock)
  /\ import_pc' = [at |-> "idle", op |-> ""]
  /\ ret' = Returned(import_pc.op, [readable |-> TRUE])
  /\ UNCHANGED <<disk, coll, models, next_id, loaders, detached, embedder, hf_cache, workers, tx, read_pc, seen, before>>

\* a reading task reaches conn.read().await
ReadCall(r, stmt) ==
  /\ read_pc[r].at = "idle"
  /\ read_pc' = [read_pc EXCEPT ![r] = [at |-> "waiting", stmt |-> stmt]]
  /\ UNCHANGED <<disk, coll, models, next_id, loaders, detached, embedder, hf_cache, workers, ret, conn_lock, tx, import_pc, seen, before>>

\* conn.read().await returns
ReadBegin(r) ==
  /\ read_pc[r].at = "waiting"
  /\ CanRead(conn_lock)
  /\ conn_lock' = [conn_lock EXCEPT !.readers = @ \cup {r}]
  /\ read_pc' = [read_pc EXCEPT ![r].at = "reading"]
  /\ UNCHANGED <<disk, coll, models, next_id, loaders, detached, embedder, hf_cache, workers, ret, tx, import_pc, seen, before>>

\* the statement runs on the connection, then the read guard is dropped
ReadEnd(r) ==
  /\ read_pc[r].at = "reading"
  /\ seen' = [seen EXCEPT ![r] = IF ConnTable.st = "none" THEN NoTable
                                 ELSE [st |-> "table", hasKey |-> ConnTable.hasKey]]
  /\ conn_lock' = [conn_lock EXCEPT !.readers = @ \ {r}]
  /\ read_pc' = [read_pc EXCEPT ![r] = [at |-> "idle", stmt |-> ""]]
  /\ UNCHANGED <<disk, coll, models, next_id, loaders, detached, embedder, hf_cache, workers, ret, tx, import_pc, before>>

\* the state Collection::new leaves on a fresh directory
InitImport ==
  /\ \E config \in Configs :
       /\ fs_config = ConfigToJson(config)
       /\ coll = [st |-> "open", config |-> config, vector_index |-> [c \in Columns |-> NoIndex]]
  /\ fs_dir = TRUE
  /\ fs_index = [c \in Columns |-> NoDir]
  /\ db_table = NoTable
  /\ db_seq = FALSE
  /\ models = [i \in {} |-> [dim |-> 0, dtype |-> ""]]
  /\ next_id = 1
  /\ ret = [op |-> "create", args |-> [overwrite |-> FALSE], st |-> "ok", err |-> "", n |-> 0]
  /\ InitTasks

NextImport ==
  \/ \E op \in {"import_jsonl", "import_parquet"} : ImportCall(op)
  \/ ImportBegin
  \/ \E src \in SourceFiles : ImportCreateTable(src)
  \/ ImportAddKeys
  \/ \E commitFails \in BOOLEAN : ImportCommit(commitFails)
  \/ ImportReturn
  \/ \E r \in Readers, stmt \in ReadStatements : ReadCall(r, stmt)
  \/ \E r \in Readers : ReadBegin(r)
  \/ \E r \in Readers : ReadEnd(r)

SpecImport == InitImport /\ [][NextImport]_vars

(***************************************************************************)
(* Calls that are given up: the caller drops the future at an await.       *)
(***************************************************************************)
\* the future of the call was dropped: nothing is returned
Cancelled(op, args) ==
  [op |-> op, args |-> args, st |-> "cancelled", err |-> "", n |-> 1 - ret.n]

\* embed_column is dropped at an await of its loop or before the save: the
\* batches added so far stay in the index
EmbedCancel ==
  /\ embed_pc.at = "batches"
  /\ embed_pc' = IdleEmbedder
  /\ ret' = Cancelled("embed_column", NoArgs)
  /\ UNCHANGED <<disk, coll, models, next_id, importers, loaders, detached, hf_cache, workers,
                 batch_log, saves>>

\* an import is dropped while it waits for conn.write()
ImportCancel ==
  /\ import_pc.at = "waiting"
  /\ import_pc' = [at |-> "idle", op |-> ""]
  /\ ret' = Cancelled(import_pc.op, [readable |-> TRUE])
  /\ UNCHANGED <<disk, coll, models, next_id, loaders, detached, embedder, hf_cache, workers,
                 conn_lock, tx, read_pc, seen, before>>

\* a created collection, and a model predict can run and one it cannot
InitAbort ==
  /\ \E config \in Configs :
       /\ config.index_columns = <<>>
       /\ fs_config = ConfigToJson(config)
       /\ coll = [st |-> "open", config |-> config, vector_index |-> [c \in Columns |-> NoIndex]]
  /\ fs_dir = TRUE
  /\ fs_index = [c \in Columns |-> NoDir]
  /\ db_table = NoTable
  /\ db_seq = FALSE
  /\ models = <<[dim |-> 2, dtype |-> "F32"], [dim |-> 2, dtype |-> "Int8"]>>
  /\ next_id = 3
  /\ ret = [op |-> "load_model", args |-> NoArgs, st |-> "ok", err |-> "", n |-> 0]
  /\ InitTasks

\* an import and an embed_column, one at a time, each step by step, each of
\* which may fail or be given up
NextAbort ==
  \/ ImportCall("import_jsonl")
  \/ ImportBegin
  \/ \E src \in SourceFiles : ImportCreateTable(src)
  \/ ImportAddKeys
  \/ \E commitFails \in BOOLEAN : ImportCommit(commitFails)
  \/ ImportReturn
  \/ ImportCancel
  \/ \E column_name \in Columns, batch_size \in 1 .. MaxBatch, model_id \in 1 .. 2 :
       EmbedCall(column_name, batch_size, model_id)
  \/ EmbedBatch
  \/ EmbedSave
  \/ EmbedReturn
  \/ EmbedCancel

SpecAbort == InitAbort /\ [][NextAbort]_vars

(***************************************************************************)
(* The sequential specification: one call after another.                   *)
(***************************************************************************)
Init ==
  /\ fs_dir = FALSE
  /\ fs_config = NoFile
  /\ fs_index = [c \in Columns |-> NoDir]
  /\ db_table = NoTable
  /\ db_seq = FALSE
  /\ coll = NoCollection
  /\ models = [i \in {} |-> [dim |-> 0, dtype |-> ""]]
  /\ next_id = 1
  /\ ret = [op |-> "init", args |-> NoArgs, st |-> "ok", err |-> "", n |-> 0]
  /\ InitTasks

Next ==
  \/ \E config \in Configs, overwrite \in BOOLEAN, fault \in CreateFaults :
       Create(config, overwrite, fault)
  \/ Open
  \/ Drop
  \/ \E src \in SourceFiles, commitFails \in BOOLEAN : ImportJsonl(src, commitFails)
  \/ \E src \in SourceFiles, commitFails \in BOOLEAN : ImportParquet(src, commitFails)
  \/ \E kind \in ModelKinds, fault \in LoadFaults : LoadModel(kind, fault)
  \/ \E column_name \in Columns, batch_size \in 0 .. MaxBatch, model_id \in ModelIds :
       EmbedColumn(column_name, batch_size, model_id)
  \/ \E column_name \in Columns, query \in Texts, limit \in 0 .. MaxK, model_id \in ModelIds :
       Search(column_name, query, limit, model_id)

Spec == Init /\ [][Next]_vars

\* load_model in tasks side by side, from ModelManager::new
SpecLoad == Init /\ [][NextLoad]_vars

\* the methods of one VectorIndex, called in any order
SpecIndex == Init /\ [][NextIndex]_vars

\* download_model called again and again on one model cache directory
SpecDownload == Init /\ [][NextDownload]_vars

\* one model is registered; load_model, an import, embed_column and searches
\* are then called once each, side by side
InitWorkersSpec ==
  /\ fs_dir = FALSE
  /\ fs_config = NoFile
  /\ fs_index = [c \in Columns |-> NoDir]
  /\ db_table = NoTable
  /\ db_seq = FALSE
  /\ coll = NoCollection
  /\ models = <<[dim |-> 2, dtype |-> "F32"]>>
  /\ next_id = 2
  /\ ret = [op |-> "load_model", args |-> NoArgs, st |-> "ok", err |-> "", n |-> 0]
  /\ InitTasks

SpecWorkers == InitWorkersSpec /\ [][NextWorkers]_vars

\* the same under fair scheduling: a call that can take a step takes one
SpecWorkersFair == SpecWorkers /\ WF_vars(\E t \in Workers : WorkerStep(t))

\* a collection made by Collection::new, with or without an imported table, and
\* a ModelManager that has loaded two models
InitEmbed ==
  /\ \E config \in Configs :
       /\ config.index_columns = <<>>
       /\ fs_config = ConfigToJson(config)
       /\ coll = [st |-> "open", config |-> config, vector_index |-> [c \in Columns |-> NoIndex]]
  /\ fs_dir = TRUE
  /\ fs_index = [c \in Columns |-> NoDir]
  /\ \/ db_table = NoTable /\ db_seq = FALSE
     \/ \E t \in ImportedTables : db_table = t.table /\ db_seq = t.seq
  /\ \E k1 \in ModelKinds, k2 \in ModelKinds : models = <<k1, k2>>
  /\ next_id = 3
  /\ ret = [op |-> "load_model", args |-> NoArgs, st |-> "ok", err |-> "", n |-> 0]
  /\ InitTasks

NextEmbed ==
  \/ \E column_name \in Columns, batch_size \in 0 .. MaxBatch, model_id \in 1 .. 3 :
       EmbedCall(column_name, batch_size, model_id)
  \/ EmbedBatch
  \/ EmbedSave
  \/ EmbedReturn

SpecEmbed == InitEmbed /\ [][NextEmbed]_vars

(***************************************************************************)
(* Properties.                                                             *)
(***************************************************************************)
ImportOps == {"import_jsonl", "import_parquet"}

\* the _key values of the rows of the table
TableKeys == IF db_table.st = "none" THEN {} ELSE {db_table.rows[i].key : i \in DOMAIN db_table.rows}

\* the model ids that resolve to a model predict can run
UsableModelIds == {id \in DOMAIN models : models[id].dtype # "Int8"}

\* C1: after a successful import of a source of N rows the _key values of the
\* table are exactly 1 .. N, whatever the source (one with its own _key column
\* included).
C1_KeyDensity ==
  (ret.op \in ImportOps /\ ret.st = "ok") => TableKeys = 1 .. Len(db_table.rows)

\* C2: every key held by the VectorIndex of any column is the _key of a row of
\* the row store.
C2_CrossStoreIntegrity ==
  coll.st = "open" =>
    \A c \in Columns :
      coll.vector_index[c].st = "some" =>
        \A i \in DOMAIN coll.vector_index[c].entries :
          coll.vector_index[c].entries[i].key \in TableKeys \ {NULL}

\* C3: every result (content, key, score) of search(column, q, k) carries the
\* content that `column` has in the row whose _key is key.
C3_ContentOfKey ==
  coll.st = "open" =>
    \A c \in Columns, q \in Texts, k \in 0 .. MaxK, id \in ModelIds :
      LET out == SearchOutcome(c, q, k, id)
      IN  out.st = "ok" =>
            \A i \in DOMAIN out.val :
              \E j \in DOMAIN db_table.rows :
                /\ db_table.rows[j].key = out.val[i].key
                /\ db_table.rows[j].text[c] = out.val[i].content

\* C4: the results of Collection.search and of VectorIndex.search are sorted by
\* descending score.
C4_DescendingScore ==
  coll.st = "open" =>
    \A c \in Columns, q \in Texts, k \in 0 .. MaxK, id \in ModelIds :
      /\ LET out == SearchOutcome(c, q, k, id)
         IN  out.st = "ok" =>
               \A i \in 1 .. (Len(out.val) - 1) : out.val[i].score >= out.val[i + 1].score
      /\ (coll.vector_index[c].st = "some" /\ id \in UsableModelIds) =>
           LET res == VectorIndexSearch(coll.vector_index[c], Embedding(id, q), k)
           IN  \A i \in 1 .. (Len(res) - 1) : res[i].score >= res[i + 1].score

\* C4's case: a search has returned, and some search of the state returns two
\* results of different scores
C4_Witness ==
  /\ ret.op = "search" /\ ret.st = "ok" /\ coll.st = "open"
  /\ \E c \in Columns, q \in Texts, k \in 0 .. MaxK, id \in ModelIds :
       LET out == SearchOutcome(c, q, k, id)
       IN  out.st = "ok" /\ Len(out.val) >= 2 /\ out.val[1].score > out.val[2].score

\* C5: search(column, q, k) on an indexed column returns exactly
\* min(k, entries of the column's index) results, and an empty sequence (no
\* failure) when the index is empty.
C5_ResultCount ==
  coll.st = "open" =>
    \A c \in Columns, q \in Texts, k \in 1 .. MaxK, id \in UsableModelIds :
      coll.vector_index[c].st = "some" =>
        LET out == SearchOutcome(c, q, k, id)
        IN  /\ out.st = "ok"
            /\ Len(out.val) = Min(k, Len(coll.vector_index[c].entries))

\* C6: create(config, overwrite = false) on a name whose directory exists fails
\* with AlreadyExists and leaves config.json, row store and index files as they
\* were.
C6_CreateExistingFails ==
  [][(fs_dir /\ ret'.op = "create" /\ ~ret'.args.overwrite)
       => (ret'.st = "err" /\ ErrorKind(ret'.err) = "AlreadyExists" /\ UNCHANGED disk)]_vars

\* C7: open(cfg.name) right after a successful create(cfg, overwrite) succeeds
\* and returns a collection whose config is cfg.
C7_OpenAfterCreate ==
  [][(ret.op = "create" /\ ret.st = "ok" /\ ret'.op = "open")
       => (ret'.st = "ok" /\ coll'.st = "open" /\ coll'.config = coll.config)]_vars

\* C8: open(name) returns an error value and never aborts when the collection
\* directory is missing (NotFound), when config.json is missing (NotFound) and
\* when config.json cannot be parsed (CorruptState); nothing on disk changes.
C8_OpenFailures ==
  [][ret'.op = "open"
       => /\ ~fs_dir => (ret'.st = "err" /\ ErrorKind(ret'.err) = "NotFound")
          /\ (fs_dir /\ fs_config.st = "absent")
               => (ret'.st = "err" /\ ErrorKind(ret'.err) = "NotFound")
          /\ (fs_dir /\ fs_config.st = "garbage")
               => (ret'.st = "err" /\ ErrorKind(ret'.err) = "CorruptState")
          /\ ret'.st = "err" => UNCHANGED disk]_vars

\* C8's case: open has failed on a config.json that cannot be parsed
C8_Witness ==
  /\ ret.op = "open" /\ ret.st = "err" /\ ErrorKind(ret.err) = "CorruptState"
  /\ fs_dir /\ fs_config.st = "garbage"

\* C9: an import holds the writer lock of the row store for its whole
\* transaction; an import that fails at any statement leaves the row store as
\* it found it, with no transaction open; and no reading task ever sees the
\* table without its _key column.
C9_ImportAtomic ==
  /\ tx.active => conn_lock.writer
  /\ (ret.op \in ImportOps /\ ret.st = "err" /\ import_pc.at \in {"idle", "waiting"})
       => (db_table = before.table /\ db_seq = before.seq /\ ~tx.active)
  /\ \A r \in Readers : seen[r].st = "table" => seen[r].hasKey

\* C9's case: an import was rolled back when its commit failed, the next import
\* has made the table and not yet its _key column, and a reading task waits
C9_Witness ==
  /\ ret.op \in ImportOps /\ ret.st = "err" /\ ret.err = "duckdb: commit"
  /\ import_pc.at = "created" /\ tx.active /\ ~tx.table.hasKey
  /\ \E r \in Readers : read_pc[r].at = "waiting"

\* C10: an import into a collection that holds an imported table fails, with
\* InvalidOperation (DuckDB's "table exists") for every source that can be
\* read, and the rows and _key values of the first import stay.
C10_SecondImportFails ==
  [][(db_table.st = "table" /\ ret'.op \in ImportOps)
       => /\ ret'.st = "err"
          /\ ret'.args.readable => ErrorKind(ret'.err) = "InvalidOperation"
          /\ db_table' = db_table
          /\ db_seq' = db_seq]_vars

\* C10's case: an import has failed on a table that holds rows
C10_Witness ==
  /\ ret.op \in ImportOps /\ ret.st = "err" /\ ret.err = "duckdb: table exists"
  /\ db_table.st = "table" /\ Len(db_table.rows) > 0

\* C11: search on a column that has no index in the collection's column map,
\* with a model_id the ModelManager resolves, returns a NotFound error value
\* and does not abort.
C11_MissingColumn ==
  coll.st = "open" =>
    \A c \in Columns, q \in Texts, k \in 0 .. MaxK, id \in DOMAIN models :
      coll.vector_index[c].st = "absent" =>
        LET out == SearchOutcome(c, q, k, id)
        IN  out.st = "err" /\ ErrorKind(out.err) = "NotFound"

\* C12: when the collection is dropped and opened again, the open succeeds and
\* every column whose index a successful embed_column saved gets an index with
\* the entries (keys and vectors) that were saved, whatever index_columns the
\* config lists.
C12_PersistenceRoundTrip ==
  [][(ret.op = "drop" /\ ret'.op = "open" /\ fs_dir /\ ConfigFromJson(fs_config).ok)
       => \A c \in Columns :
            fs_index[c].st = "saved" =>
              /\ ret'.st = "ok"
              /\ coll'.st = "open"
              /\ coll'.vector_index[c].st = "some"
              /\ coll'.vector_index[c].entries = fs_index[c].entries]_vars

\* C13: the i-th load_model to return returns the id i, so no two loads, one
\* after another or side by side, return the same id; and every id returned
\* resolves to the model of the load that returned it, ever after.
C13_ModelIds ==
  \A i \in DOMAIN returned :
    /\ returned[i].id = i
    /\ i \in DOMAIN models
    /\ models[i] = returned[i].kind

\* C13's case: a load has returned its id, and of two loads running side by
\* side one holds next_id and is about to insert its model while the other
\* waits for next_id
C13_Witness ==
  /\ Len(returned) >= 1
  /\ \E t \in Loaders : load_pc[t].at = "inserting" /\ load_pc[t].id = Len(returned) + 1
  /\ \E t \in Loaders : load_pc[t].at = "built"

\* C14: predict on a registered model returns the F16 variant for an F16
\* model, the F32 variant for an F32 model, and an Unimplemented error value
\* (no abort) for an Int8 model.
C14_PredictDispatch ==
  \A id \in DOMAIN models, q \in Texts :
    LET out == Predict(id, <<q>>)
    IN  /\ models[id].dtype = "F16" => (out.st = "ok" /\ out.dtype = "F16")
        /\ models[id].dtype = "F32" => (out.st = "ok" /\ out.dtype = "F32")
        /\ models[id].dtype = "Int8" => (out.st = "err" /\ ErrorKind(out.err) = "Unimplemented")

\* C15: VectorIndex::new yields Empty, with_options Configured, add Populated
\* and save Persisted; search is accepted in every state but Empty; and add on
\* an Empty index returns an error and leaves the index as it was.
C15_IndexLifeCycle ==
  [][/\ (ret'.op = "VectorIndex::new" /\ ret'.st = "ok") => IndexState(vi', vi_saved') = "Empty"
     /\ ret'.op = "with_options" => IndexState(vi', vi_saved') = "Configured"
     /\ (ret'.op = "add" /\ ret'.st = "ok") => IndexState(vi', vi_saved') = "Populated"
     /\ (ret'.op = "save" /\ ret'.st = "ok") => IndexState(vi', vi_saved') = "Persisted"
     /\ (ret'.op = "VectorIndex::search" /\ IndexState(vi, vi_saved) # "Empty")
          => ret'.st = "ok"
     /\ (ret'.op = "add" /\ IndexState(vi, vi_saved) = "Empty")
          => (ret'.st = "err" /\ UNCHANGED detached)]_vars

\* C16: every vector in the VectorIndex of a column has as many scalars as the
\* dimension the index was configured with, also after embed_column has run
\* again on the column with a model of another output_dim.
C16_DimensionHomogeneity ==
  coll.st = "open" =>
    \A c \in Columns :
      coll.vector_index[c].st = "some" =>
        \A i \in DOMAIN coll.vector_index[c].entries :
          coll.vector_index[c].entries[i].vec.dim = coll.vector_index[c].dim

\* C17: when the metadata.json that download_model reads has a
\* letsearch_version other than 1, or does not list the variant asked for, the
\* call returns an IncompatibleModel error value and downloads neither the
\* weights file nor a required file.
C17_IncompatibleModel ==
  [][(/\ ret'.op = "download_model"
      /\ hf_meta'.st = "json"
      /\ (hf_meta'.version # 1 \/ ret'.args.variant \notin hf_meta'.variants))
       => /\ ret'.st = "err"
          /\ ErrorKind(ret'.err) = "IncompatibleModel"
          /\ hf_files' = hf_files]_vars

\* the keys the batches of the running embed_column inserted, in insertion order
RECURSIVE InsertedKeys(_)
InsertedKeys(log) ==
  IF log = <<>> THEN <<>> ELSE InsertedKeys(SubSeq(log, 1, Len(log) - 1)) \o log[Len(log)].keys

\* C18: a successful embed_column with batch_size >= 1 on a column that had no
\* index runs exactly ceil(N / batch_size) batches at offsets 0, batch_size,
\* 2 * batch_size, ..; every batch has between 1 and batch_size texts and only
\* the last may be short; the index then holds exactly one entry for each of
\* the N row keys.
C18_BatchCoverage ==
  (embed_pc.at = "saved" /\ ~embed_pc.had) =>
    LET N == Len(db_table.rows)
        batch_size == embed_pc.batch_size
        entries == coll.vector_index[embed_pc.column_name].entries
    IN  /\ Len(batch_log) * batch_size >= N
        /\ (Len(batch_log) - 1) * batch_size < N \/ (N = 0 /\ batch_log = <<>>)
        /\ \A i \in DOMAIN batch_log :
             /\ batch_log[i].offset = (i - 1) * batch_size
             /\ batch_log[i].n >= 1
             /\ batch_log[i].n <= batch_size
             /\ i < Len(batch_log) => batch_log[i].n = batch_size
        /\ Len(entries) = N
        /\ \A r \in DOMAIN db_table.rows :
             Cardinality({i \in DOMAIN entries : entries[i].key = db_table.rows[r].key}) = 1

\* C19: within one embed_column the batches run one after another at ascending
\* offsets, each inserted before the next is read, and the keys go into the
\* index of the column in strictly ascending order.
C19_AscendingOrder ==
  embed_pc.at \in {"batches", "saved"} =>
    LET inserted == InsertedKeys(batch_log)
        entries == coll.vector_index[embed_pc.column_name].entries
    IN  /\ Len(batch_log) = embed_pc.batch
        /\ \A i \in DOMAIN batch_log : \A j \in DOMAIN batch_log :
             i < j => batch_log[i].offset < batch_log[j].offset
        /\ Len(entries) >= Len(inserted)
        /\ \A i \in DOMAIN inserted :
             entries[Len(entries) - Len(inserted) + i].key = inserted[i]
        /\ \A i \in DOMAIN inserted : \A j \in DOMAIN inserted :
             i < j => inserted[i] < inserted[j]

\* C20: the index of the column is saved exactly once in a successful
\* embed_column, after the last batch and before the return; it is not saved
\* while batches remain, nor in a call that fails.
C20_SaveOnce ==
  /\ embed_pc.at = "batches" => saves = 0
  /\ embed_pc.at = "saved" =>
       /\ saves = 1
       /\ Len(batch_log) = embed_pc.num_batches
       /\ fs_index[embed_pc.column_name] =
            VectorIndexSave(coll.vector_index[embed_pc.column_name])
  /\ (embed_pc.at = "idle" /\ ret.op = "embed_column") =>
       /\ ret.st = "ok" => saves = 1 /\ Len(batch_log) = embed_pc.num_batches
       /\ ret.st # "ok" => saves = 0

\* a call that ran two batches, saved and returned
C20_Witness ==
  /\ embed_pc.at = "idle"
  /\ ret.op = "embed_column"
  /\ ret.st = "ok"
  /\ Len(batch_log) >= 2
  /\ saves = 1

\* the keys of the entries of an index, in insertion order
KeysOf(entries) == [i \in DOMAIN entries |-> entries[i].key]

\* the keys get_column_and_keys hands out over the whole table, in table order
RowKeysInOrder == [i \in DOMAIN db_table.rows |-> KeyOrZero(db_table.rows[i].key)]

\* the entries the index of the running embed_column held when it was called
PriorEntries ==
  LET entries == coll.vector_index[embed_pc.column_name].entries
  IN  SubSeq(entries, 1, Len(entries) - Len(InsertedKeys(batch_log)))

\* the running embed_column is a second run: the column has the index one
\* complete run left, and the model is one that run could have used
SecondRun ==
  /\ embed_pc.at \in {"batches", "saved"}
  /\ embed_pc.had
  /\ KeysOf(PriorEntries) = RowKeysInOrder
  /\ embed_pc.model_id \in UsableModelIds
  /\ OutputDim(embed_pc.model_id).val = coll.vector_index[embed_pc.column_name].dim

\* C21: a second embed_column on the same column succeeds and inserts every
\* key again: with N rows the index then holds 2N entries, each row key
\* exactly twice.
C21_SecondRunDuplicates ==
  [][SecondRun =>
       /\ ret' = ret \/ ret'.st = "ok"
       /\ embed_pc.at = "saved" =>
            LET entries == coll.vector_index[embed_pc.column_name].entries
            IN  /\ Len(entries) = 2 * Len(db_table.rows)
                /\ \A r \in DOMAIN db_table.rows :
                     Cardinality({i \in DOMAIN entries :
                                    entries[i].key = db_table.rows[r].key}) = 2]_vars

\* the running embed_column reads a column that has a NULL text in some row,
\* with a model predict can run
NullTextRun ==
  /\ embed_pc.at = "batches"
  /\ \E r \in DOMAIN db_table.rows : db_table.rows[r].text[embed_pc.column_name] = NULL
  /\ db_table.keyType = "UBIGINT"
  /\ embed_pc.model_id \in UsableModelIds

\* C22: embed_column on a column with NULL text in some rows completes, and in
\* every batch the i-th text handed to the model and the i-th key handed to the
\* index come from the same row.
C22_NullTextCompletes ==
  [][NullTextRun =>
       /\ ret' = ret \/ ret'.st = "ok"
       /\ \A b \in DOMAIN batch_log' :
            /\ batch_log'[b].n = Len(batch_log'[b].keys)
            /\ \A i \in DOMAIN batch_log'[b].keys :
                 batch_log'[b].keys[i] =
                   KeyOrZero(db_table.rows[batch_log'[b].offset + i].key)]_vars

\* C23: a predict holds the registry and its model for reading only, so two
\* predicts on one model_id run at the same time; load_model inserts its model
\* holding the registry alone, with no reader in it.
C23_ModelManagerLocks ==
  /\ \A t \in Workers :
       At(t, "inference") =>
         /\ t \in locks[Lock("models")].readers
         /\ t \in locks[ModelLock(worker_pc[t].model_id)].readers
         /\ \A l \in LockIds : t \notin locks[l].writer
  /\ At(Loader, "models.insert") =>
       /\ locks[Lock("models")].writer = {Loader}
       /\ locks[Lock("models")].readers = {}
       /\ \A t \in Workers \ {Loader} : ~At(t, "models.get")

\* two predicts on the same model_id in flight at once
C23_Witness ==
  \E t \in Workers, u \in Workers :
    /\ t # u
    /\ At(t, "inference")
    /\ At(u, "inference")
    /\ worker_pc[t].model_id = worker_pc[u].model_id

\* C24: no call holds the connection lock while its predict is in flight:
\* embed_column and search drop the reader guard of a statement before the
\* ModelManager is entered, so an import can take the writer lock meanwhile.
C24_NoConnAcrossInference ==
  \A t \in Workers :
    (Lock("model_manager") \in Held(t) \/ At(t, "inference")) => Lock("conn") \notin Held(t)

\* the embed_column has read a batch and its inference runs while the import
\* holds the connection for writing
C24_Witness ==
  /\ At(Embedder, "inference")
  /\ index_keys = <<>>
  /\ locks[Lock("conn")].writer = {Importer}

LockRank(lock) ==
  CASE lock.name = "conn" -> 1
    [] lock.name = "vector_index" -> 2
    [] lock.name = "index" -> 3
    [] lock.name = "model_manager" -> 4
    [] lock.name = "next_id" -> 5
    [] lock.name = "models" -> 6
    [] lock.name = "model" -> 7

\* a task asks for a lock only above the locks it holds
LockOrder ==
  \A t \in Workers :
    (Running(t) /\ Current(t).op \in {"read", "write"}) =>
      \A h \in Held(t) : LockRank(h) < LockRank(Current(t).lock)

\* a call that is over holds no lock and waits for none
NoGuardLeft ==
  \A t \in Workers :
    worker_pc[t].at = Over => \A l \in LockIds : t \notin locks[l].writer \cup locks[l].readers \cup locks[l].queue

\* C30: with load_model, an import, embed_column and searches running side by
\* side under fair scheduling and writer-preferring locks, the locks are taken
\* in one order, a call that is over holds no lock, and every call that was
\* made comes to its end: no state is reached where the calls wait for each
\* other.
C30_DeadlockFreedom ==
  /\ [](LockOrder /\ NoGuardLeft)
  /\ <>[](\A t \in Workers : ~Running(t))

\* all the calls run, the load_model waits for the registry that two predicts
\* read, and the embed_column holds the column map for writing
C30_Witness ==
  /\ \A t \in Workers : Running(t)
  /\ Loader \in locks[Lock("models")].queue
  /\ locks[Lock("models")].readers # {}
  /\ locks[Lock("vector_index")].writer = {Embedder}

UnregisteredIds == (0 .. MaxModels + 1) \ DOMAIN models

\* C27: an unregistered model_id is a NotFound error value of predict,
\* output_dim and output_dtype, and of embed_column too: an embed_column that
\* ends on the lookup of its model_id has returned an error, not aborted.
C27_UnregisteredModelId ==
  /\ \A model_id \in UnregisteredIds :
       /\ OutputDim(model_id).st = "err"
       /\ ErrorKind(OutputDim(model_id).err) = "NotFound"
       /\ OutputDtype(model_id).st = "err"
       /\ ErrorKind(OutputDtype(model_id).err) = "NotFound"
       /\ Predict(model_id, <<"q">>).st = "err"
       /\ ErrorKind(Predict(model_id, <<"q">>).err) = "NotFound"
  /\ (ret.op = "embed_column" /\ ret.err \in {"Model not loaded", "Model not found"}) =>
       ret.st = "err"


\* C28: download_file returns success only when the whole body is at the
\* destination, on a stream that breaks in the middle and on a later call
\* that finds the file an earlier call left; so a download_model that
\* succeeded has its model file whole.
C28_WholeFileOrError ==
  /\ \A repo \in Repos, file_name \in FileNames, net \in Networks :
       LET r == DownloadFile(hf_files, repo, file_name, net)
       IN  r.ok => r.files[file_name] = "whole"
  /\ (ret.op = "download_model" /\ ret.st = "ok") =>
       hf_files[VariantPath(ret.args.variant)] = "whole"


\* the calls that may change a collection that exists: an import,
\* embed_column, and Collection::new asked to overwrite
Mutators(outcome) ==
  \/ outcome.op \in ImportOps \cup {"embed_column"}
  \/ outcome.op = "create" /\ outcome.args.overwrite

\* C29: the files, the rows and the sequence of a collection that exists are
\* changed only by an import, by embed_column and by create with overwrite =
\* true; a search, whether it succeeds or fails, leaves the row store, the
\* column-to-index map, every index and every file as they were.
C29_FrameEffect ==
  [][/\ (fs_dir /\ disk' # disk) => (ret' # ret /\ Mutators(ret'))
     /\ (ret' # ret /\ ret'.op = "search") => UNCHANGED <<disk, coll>>]_vars

====
